---- MODULE Spec2Model ----
(***************************************************************************)
(* GrafosNASA: the graph engines (Bellman-Ford, Floyd-Warshall,            *)
(* Edmonds-Karp), the graph builders, the carrier (Burro) and the          *)
(* maximal-route planner, as state machines.                               *)
(*                                                                         *)
(* Numbers: the Python code works on floats.  The model draws every weight,*)
(* capacity and distance from small sets of integers, on which float       *)
(* arithmetic is exact; float('inf') is the value Inf, handled by FAdd and *)
(* FLess as IEEE arithmetic handles it.  Rounding of non-integer floats is *)
(* outside the model.                                                      *)
(***************************************************************************)
EXTENDS Integers, Sequences, FiniteSets, TLC

(***************************************************************************)
(* Bounds of the model                                                     *)
(***************************************************************************)
NumNodes == 3
MaxEdges == 2
Weights  == {-5, 1, 3}
\* datasets handed to the graph builders: star entries, links in all
MaxEntries == 2
MaxLinks == 2
\* calls made on one carrier
MaxOps == 3

(***************************************************************************)
(* Python values                                                           *)
(***************************************************************************)
\* float('inf'): larger than every finite sum the bounded runs can produce
Inf == 1000000
\* None where a node id is expected (node ids are >= 1)
None == 0

\* a + b on floats: inf absorbs every finite value
FAdd(a, b) == IF a = Inf \/ b = Inf THEN Inf ELSE a + b
\* a < b on floats
FLess(a, b) == IF a = Inf THEN FALSE ELSE IF b = Inf THEN TRUE ELSE a < b

\* sequences over S of length 0..n
SeqUpTo(S, n) == UNION {[1..k -> S] : k \in 0..n}

Range(s) == {s[i] : i \in DOMAIN s}

\* F(v), with v worked out once however often F uses it
With(v, F(_)) == CHOOSE r \in {F(x) : x \in {v}} : TRUE

VARIABLES
    \* the graph handed to the shortest-path engines
    nodes,      \* list of node ids
    edges,      \* list of (u, v, w)
    capKind,    \* for MaxFlow, what each edge's third component is: "float" | "None" | "str"
    \* BellmanFord.run
    bfPc,       \* "idle" | "loop" | "detect" | "returned" | "ValueError" | "NegativeCycleError"
    source,     \* the origin passed to run
    dist,       \* dict node -> distance
    prev,       \* dict node -> predecessor or None
    bfRound,    \* completed iterations of the relaxation loop
    \* FloydWarshall
    fwPc,       \* "none" | "built" | "running" | "done" | "NegativeCycleError"
    fwDist,     \* self.dist, an n x n matrix (indices from 1)
    fwNext,     \* self.next, an n x n matrix of node ids or None
    fwK,        \* the next value of the outer loop index k (from 1)
    \* MaxFlow (the edges' third component is then a capacity)
    mfPc,       \* "none" | "built" | "loop" | "returned" | "ValueError" | "InvalidPathError"
    mfCap,      \* self.cap, the residual capacities: a dict of dicts
    mfSource,   \* run's source
    mfSink,     \* run's sink
    mfFlow,     \* run's max_flow
    mfS,        \* the set S run returns
    \* the dataset (JsonLoader.data) and a graph builder's call
    dataset,    \* the star entries of all constellations, in file order
    blocked,    \* blocked_paths: a set of pairs (u, v)
    built,      \* what the last builder call returned (NotBuilt before any call)
    \* carriers (Burro instances), by reference
    heap,       \* reference -> the fields of the instance, NoBurro where none is allocated
    call,       \* the last method called on the caller's carrier, with its arguments
    ret,        \* what that call returned (0 for None)
    ops,        \* the number of calls made
    \* BurroRuntimeEngine
    engine,     \* the reference of the adapter's _copy (None before construction)
    history,    \* self._history, a list of StepRecap
    \* MaxRoutePlanner.plan_max_route
    plPc,       \* "idle" | "loop" | "break" | "done" | "ValueError"
    burro,      \* the reference the planner works on (None before the call)
    current,
    current_galaxy,
    visited_stars,
    visited_galaxies,
    segments,   \* the segment dicts created so far, in creation order
    segment,    \* the open segment: its index in segments
    itinerary,  \* list of segment indices (the same index twice is the same dict twice)
    recap_rows,
    hops,
    max_hops,
    plan        \* the dict returned (NoPlan before the return)

spVars == <<nodes, edges, capKind>>
bfVars == <<bfPc, source, dist, prev, bfRound>>
fwVars == <<fwPc, fwDist, fwNext, fwK>>
mfVars == <<mfPc, mfCap, mfSource, mfSink, mfFlow, mfS>>
dsVars == <<dataset, blocked>>
gbVars == <<built>>
callVars == <<call, ret, ops>>
engVars == <<engine, history>>
cbVars == <<heap, callVars, engVars>>
plVars == <<plPc, burro, current, current_galaxy, visited_stars, visited_galaxies,
            segments, segment, itinerary, recap_rows, hops, max_hops, plan>>
vars == <<spVars, bfVars, fwVars, mfVars, dsVars, gbVars, cbVars, plVars>>

(***************************************************************************)
(* Graph inputs of the shortest-path engines: NumNodes nodes, at most      *)
(* MaxEdges edges in any order, parallel edges and self-loops included.    *)
(***************************************************************************)
NodeList == [i \in 1..NumNodes |-> i]
NodeSet == Range(NodeList)
EdgeInputs == SeqUpTo(NodeSet \X NodeSet \X Weights, MaxEdges)

\* every third component is a number
AllFloat(es) == [i \in DOMAIN es |-> "float"]

GraphInit ==
    /\ nodes = NodeList
    /\ edges \in EdgeInputs
    /\ capKind = AllFloat(edges)

(***************************************************************************)
(* BellmanFord                                                             *)
(***************************************************************************)
\* one relaxation test of run's inner loop
Relaxes(d, e) == d[e[1]] # Inf /\ FLess(FAdd(d[e[1]], e[3]), d[e[2]])

\* the inner loop "for u, v, w in self.edges" of one pass, from edge i on
RECURSIVE RelaxPass(_, _, _)
RelaxPass(i, st, es) ==
    IF i > Len(es) THEN st
    ELSE LET e == es[i] IN
         IF Relaxes(st.dist, e)
         THEN RelaxPass(i + 1,
                        [dist |-> [st.dist EXCEPT ![e[2]] = FAdd(st.dist[e[1]], e[3])],
                         prev |-> [st.prev EXCEPT ![e[2]] = e[1]],
                         changed |-> TRUE],
                        es)
         ELSE RelaxPass(i + 1, st, es)

\* number of iterations of the relaxation loop: range(len(self.nodes) - 1)
BFRounds(ns) == Len(ns) - 1

BFIdle ==
    /\ bfPc = "idle"
    /\ source = None
    /\ dist = <<>>
    /\ prev = <<>>
    /\ bfRound = 0

\* run(source) up to the relaxation loop
BFStart(s) ==
    /\ bfPc = "idle"
    /\ source' = s
    /\ bfRound' = 0
    /\ prev' = [n \in Range(nodes) |-> None]
    /\ IF s \notin Range(nodes)
       THEN /\ dist' = [n \in Range(nodes) |-> Inf]
            /\ bfPc' = "ValueError"
       ELSE /\ dist' = [n \in Range(nodes) |-> IF n = s THEN 0 ELSE Inf]
            /\ bfPc' = IF BFRounds(nodes) > 0 THEN "loop" ELSE "detect"
    /\ UNCHANGED <<spVars, fwVars, mfVars, dsVars, gbVars, cbVars, plVars>>

\* one iteration of "for _ in range(len(self.nodes) - 1)", with its early break
BFPass ==
    /\ bfPc = "loop"
    /\ LET st == RelaxPass(1, [dist |-> dist, prev |-> prev, changed |-> FALSE], edges) IN
        /\ dist' = st.dist
        /\ prev' = st.prev
        /\ bfRound' = bfRound + 1
        /\ bfPc' = IF ~st.changed \/ bfRound + 1 >= BFRounds(nodes) THEN "detect" ELSE "loop"
    /\ UNCHANGED <<source, spVars, fwVars, mfVars, dsVars, gbVars, cbVars, plVars>>

\* run without its detection pass: every run that leaves the loop returns
BFDetectSkipped ==
    /\ bfPc = "detect"
    /\ bfPc' = "returned"
    /\ UNCHANGED <<source, dist, prev, bfRound, spVars, fwVars, mfVars, dsVars, gbVars, cbVars, plVars>>

\* the detection pass and the return
BFDetect ==
    /\ bfPc = "detect"
    /\ bfPc' = IF \E i \in DOMAIN edges : Relaxes(dist, edges[i])
               THEN "NegativeCycleError" ELSE "returned"
    /\ UNCHANGED <<source, dist, prev, bfRound, spVars, fwVars, mfVars, dsVars, gbVars, cbVars, plVars>>

\* the walk back without path.reverse(): the nodes from the target to the origin
RECURSIVE BFWalkUnreversed(_, _, _)
BFWalkUnreversed(p, cur, fuel) ==
    IF cur = None THEN <<>>
    ELSE IF fuel = 0 THEN <<None>>
    ELSE LET rest == BFWalkUnreversed(p, p[cur], fuel - 1) IN
         IF rest = <<None>> THEN rest ELSE <<cur>> \o rest

\* BellmanFord.rebuild_path(prev, target): the walk back along prev, at most
\* fuel links; <<None>> stands for a walk that does not end within fuel links
RECURSIVE BFWalkBack(_, _, _)
BFWalkBack(p, cur, fuel) ==
    IF cur = None THEN <<>>
    ELSE IF fuel = 0 THEN <<None>>
    ELSE LET rest == BFWalkBack(p, p[cur], fuel - 1) IN
         IF rest = <<None>> THEN rest ELSE Append(rest, cur)

BFRebuildPath(p, target) == BFWalkBack(p, target, Cardinality(DOMAIN p) + 1)

(***************************************************************************)
(* FloydWarshall                                                           *)
(***************************************************************************)
\* self.index: node id -> position in self.nodes (the last one, as a dict keeps it)
FWIndex(ns, x) ==
    IF x \in Range(ns)
    THEN CHOOSE i \in DOMAIN ns : ns[i] = x /\ \A j \in DOMAIN ns : ns[j] = x => j <= i
    ELSE None

\* the constructor's loop keeping the last of several parallel edges
RECURSIVE FWLoadEdgesLast(_, _, _, _)
FWLoadEdgesLast(i, m, ns, es) ==
    IF i > Len(es) THEN m
    ELSE LET a == FWIndex(ns, es[i][1])
             b == FWIndex(ns, es[i][2])
         IN IF a = None \/ b = None \/ a = b THEN FWLoadEdgesLast(i + 1, m, ns, es)
            ELSE FWLoadEdgesLast(i + 1,
                                 [dist |-> [m.dist EXCEPT ![a][b] = es[i][3]],
                                  next |-> [m.next EXCEPT ![a][b] = es[i][2]]],
                                 ns, es)

\* the constructor's "for u, v, w in edges" loop, from edge i on
RECURSIVE FWLoadEdges(_, _, _, _)
FWLoadEdges(i, m, ns, es) ==
    IF i > Len(es) THEN m
    ELSE LET u == es[i][1]
             v == es[i][2]
             w == es[i][3]
             a == FWIndex(ns, u)
             b == FWIndex(ns, v)
         IN IF a = None \/ b = None THEN FWLoadEdges(i + 1, m, ns, es)
            ELSE IF FLess(w, m.dist[a][b])
            THEN FWLoadEdges(i + 1,
                             [dist |-> [m.dist EXCEPT ![a][b] = w],
                              next |-> [m.next EXCEPT ![a][b] = v]],
                             ns, es)
            ELSE FWLoadEdges(i + 1, m, ns, es)

\* FloydWarshall.__init__
FWConstruct(ns, es) ==
    LET n == Len(ns)
        d0 == [i \in 1..n |-> [j \in 1..n |-> IF i = j THEN 0 ELSE Inf]]
        n0 == [i \in 1..n |-> [j \in 1..n |-> IF i = j THEN ns[i] ELSE None]]
    IN FWLoadEdges(1, [dist |-> d0, next |-> n0], ns, es)

\* the innermost loop taking the next hop of k -> j instead of that of i -> k
RECURSIVE FWColumnsHopOfK(_, _, _, _, _)
FWColumnsHopOfK(j, i, k, dik, m) ==
    IF j > Len(m.dist) THEN m
    ELSE LET alt == FAdd(dik, m.dist[k][j]) IN
         IF FLess(alt, m.dist[i][j])
         THEN FWColumnsHopOfK(j + 1, i, k, dik,
                              [dist |-> [m.dist EXCEPT ![i][j] = alt],
                               next |-> [m.next EXCEPT ![i][j] = m.next[k][j]]])
         ELSE FWColumnsHopOfK(j + 1, i, k, dik, m)

\* run's innermost loop "for j in range(n)", from column j on; the matrices are
\* updated in place, so row k is read as it is now
RECURSIVE FWColumns(_, _, _, _, _)
FWColumns(j, i, k, dik, m) ==
    IF j > Len(m.dist) THEN m
    ELSE LET alt == FAdd(dik, m.dist[k][j]) IN
         IF FLess(alt, m.dist[i][j])
         THEN FWColumns(j + 1, i, k, dik,
                        [dist |-> [m.dist EXCEPT ![i][j] = alt],
                         next |-> [m.next EXCEPT ![i][j] = m.next[i][k]]])
         ELSE FWColumns(j + 1, i, k, dik, m)

\* run's loop "for i in range(n)" for one k, from row i on
RECURSIVE FWRows(_, _, _)
FWRows(i, k, m) ==
    IF i > Len(m.dist) THEN m
    ELSE LET dik == m.dist[i][k] IN
         IF dik = Inf THEN FWRows(i + 1, k, m)
         ELSE FWRows(i + 1, k, FWColumns(1, i, k, dik, m))

\* the whole triple loop of run, from k on
RECURSIVE FWLoops(_, _)
FWLoops(k, m) ==
    IF k > Len(m.dist) THEN m ELSE FWLoops(k + 1, FWRows(1, k, m))

\* run without the check of the diagonal
FWDiagonalUnchecked(d) == FALSE

\* run's check of the diagonal
FWNegativeDiagonal(d) == \E i \in DOMAIN d : d[i][i] < 0

FWIdle ==
    /\ fwPc = "none"
    /\ fwDist = <<>>
    /\ fwNext = <<>>
    /\ fwK = 0

\* FloydWarshall(nodes, edges)
FWNew ==
    /\ fwPc = "none"
    /\ LET m == FWConstruct(nodes, edges) IN
        /\ fwDist' = m.dist
        /\ fwNext' = m.next
    /\ fwK' = 1
    /\ fwPc' = "built"
    /\ UNCHANGED <<spVars, bfVars, mfVars, dsVars, gbVars, cbVars, plVars>>

\* one iteration of run's outer loop "for k in range(n)"
FWStep ==
    /\ fwPc \in {"built", "running"}
    /\ fwK <= Len(nodes)
    /\ LET m == FWRows(1, fwK, [dist |-> fwDist, next |-> fwNext]) IN
        /\ fwDist' = m.dist
        /\ fwNext' = m.next
    /\ fwK' = fwK + 1
    /\ fwPc' = "running"
    /\ UNCHANGED <<spVars, bfVars, mfVars, dsVars, gbVars, cbVars, plVars>>

\* the end of run: the diagonal check
FWFinish ==
    /\ fwPc \in {"built", "running"}
    /\ fwK > Len(nodes)
    /\ fwPc' = IF FWNegativeDiagonal(fwDist) THEN "NegativeCycleError" ELSE "done"
    /\ UNCHANGED <<fwDist, fwNext, fwK, spVars, bfVars, mfVars, dsVars, gbVars, cbVars, plVars>>

\* FloydWarshall.distance(src, dst) on matrix d
FWDistance(ns, d, src, dst) ==
    LET i == FWIndex(ns, src)
        j == FWIndex(ns, dst)
    IN IF i = None \/ j = None THEN Inf ELSE d[i][j]

\* rebuild_path's while loop: the nodes appended after cur, at most fuel of
\* them; <<None>> stands for a loop that does not end within fuel steps, and
\* <<>> after a None next hop makes the whole result empty
RECURSIVE FWFollow(_, _, _, _, _)
FWFollow(ns, nx, cur, dst, fuel) ==
    IF cur = dst THEN <<dst>>
    ELSE IF fuel = 0 THEN <<None>>
    ELSE LET hop == nx[FWIndex(ns, cur)][FWIndex(ns, dst)] IN
         IF hop = None THEN <<>>
         ELSE LET rest == FWFollow(ns, nx, hop, dst, fuel - 1) IN
              IF rest = <<>> \/ rest = <<None>> THEN rest ELSE <<cur>> \o rest

\* FloydWarshall.rebuild_path(src, dst) on next-hop matrix nx
FWRebuildPath(ns, nx, src, dst) ==
    IF src \notin Range(ns) \/ dst \notin Range(ns) THEN <<>>
    ELSE IF nx[FWIndex(ns, src)][FWIndex(ns, dst)] = None THEN <<>>
    ELSE FWFollow(ns, nx, src, dst, Len(ns) * Len(ns) + 1)

(***************************************************************************)
(* MaxFlow                                                                 *)
(*                                                                         *)
(* self.cap is a dict of dicts; a dict is iterated in the order its keys   *)
(* were inserted, which decides the order of the breadth-first search.  A  *)
(* residual graph is a record: keys[u] is the list of the keys of cap[u]   *)
(* in insertion order and val[u][v] the capacity cap[u][v] (0.0, the       *)
(* defaultdict's value, for a key not inserted).                           *)
(***************************************************************************)
Capacities == {1, 2}

\* a network on which Edmonds-Karp has to push flow back along an edge: after
\* 1 -> 2 -> 3 -> 6 the only augmenting path is 1 -> 4 -> 3 -> 2 -> 5 -> 6
CrossNodes == <<1, 2, 3, 4, 5, 6>>
CrossEdges ==
    <<(<<1, 2, 1>>), (<<2, 3, 1>>), (<<3, 6, 1>>), (<<1, 4, 1>>),
      (<<4, 3, 1>>), (<<2, 5, 1>>), (<<5, 6, 1>>)>>

FlowInit ==
    /\ \/ /\ nodes = NodeList
          /\ edges \in SeqUpTo(NodeSet \X NodeSet \X Capacities, MaxEdges)
       \/ /\ nodes = CrossNodes
          /\ edges = CrossEdges
    /\ capKind = AllFloat(edges)

\* cap[u][v] += x
CapAdd(c, u, v, x) ==
    [keys |-> IF v \in Range(c.keys[u]) THEN c.keys
              ELSE [c.keys EXCEPT ![u] = Append(@, v)],
     val  |-> [c.val EXCEPT ![u][v] = @ + x]]

\* the constructor's "for u, v, c in edges" loop, from edge i on
RECURSIVE MFLoadEdges(_, _, _)
MFLoadEdges(i, c0, es) ==
    With(c0, LAMBDA c :
        IF i > Len(es) THEN c
        ELSE MFLoadEdges(i + 1, CapAdd(c, es[i][1], es[i][2], es[i][3]), es))

\* MaxFlow.__init__ (every capacity of the inputs is a number >= 0)
MFConstruct(ns, es) ==
    MFLoadEdges(1, [keys |-> [u \in Range(ns) |-> <<>>],
                    val  |-> [u \in Range(ns) |-> [v \in Range(ns) |-> 0]]], es)

\* cap_uv > EPS, on integer capacities
AboveEps(x) == x > 0

\* the bottleneck taken as the larger of the two capacities
MFBottleneckMax(a, b) == IF a = Inf THEN b ELSE IF a > b THEN a ELSE b

\* min(flow_to[u], cap_uv)
MFBottleneck(a, b) == IF FLess(a, b) THEN a ELSE b

\* _bfs's loop "for v, cap_uv in self.cap[u].items()", from key i on; st holds
\* the queue q, parent, flow_to and found, the value returned inside the loop
\* (None while the loop has not returned)
RECURSIVE MFScan(_, _, _, _, _)
MFScan(i, u, t, c, st0) ==
    With(st0, LAMBDA st :
        IF i > Len(c.keys[u]) THEN st
        ELSE LET v == c.keys[u][i] IN
             IF AboveEps(c.val[u][v]) /\ st.parent[v] = None
             THEN LET f == MFBottleneck(st.flowTo[u], c.val[u][v])
                      st2 == [st EXCEPT !.parent[v] = u, !.flowTo[v] = f]
                  IN IF v = t THEN [st2 EXCEPT !.found = f]
                     ELSE MFScan(i + 1, u, t, c, [st2 EXCEPT !.q = Append(@, v)])
             ELSE MFScan(i + 1, u, t, c, st))

\* _bfs's loop "while q"
RECURSIVE MFDrain(_, _, _)
MFDrain(t, c, st0) ==
    With(st0, LAMBDA st :
        IF st.q = <<>> THEN st
        ELSE With(MFScan(1, Head(st.q), t, c, [st EXCEPT !.q = Tail(@)]), LAMBDA st2 :
                 IF st2.found # None THEN st2 ELSE MFDrain(t, c, st2)))

\* _bfs(s, t, parent): [aug |-> the value returned, parent |-> parent as left];
\* the source is marked by parent -1
MFBfs(c, ns, s, t) ==
    LET st == MFDrain(t, c,
                  [q |-> <<s>>,
                   parent |-> [n \in Range(ns) |-> IF n = s THEN -1 ELSE None],
                   flowTo |-> [n \in Range(ns) |-> Inf],
                   found |-> None])
    IN [aug |-> st.found, parent |-> st.parent]

\* the walk back that lowers cap[u][v] and does not raise cap[v][u]
RECURSIVE MFPushForwardOnly(_, _, _, _, _)
MFPushForwardOnly(c, parent, v, s, aug) ==
    IF v = s THEN c
    ELSE LET u == parent[v] IN
         MFPushForwardOnly(CapAdd(c, u, v, -aug), parent, u, s, aug)

\* the walk back that raises cap[v][u] and does not lower cap[u][v]
RECURSIVE MFPushKeepsForward(_, _, _, _, _)
MFPushKeepsForward(c, parent, v, s, aug) ==
    IF v = s THEN c
    ELSE LET u == parent[v] IN
         MFPushKeepsForward(CapAdd(c, v, u, aug), parent, u, s, aug)

\* run's walk "while v != source" back along parent, from v on
RECURSIVE MFPush(_, _, _, _, _)
MFPush(c0, parent, v, s, aug) ==
    With(c0, LAMBDA c :
        IF v = s THEN c
        ELSE LET u == parent[v] IN
             MFPush(CapAdd(CapAdd(c, u, v, -aug), v, u, aug), parent, u, s, aug))

\* _reachable_in_residual's loop over the keys of cap[u], from key i on
RECURSIVE MFReachScan(_, _, _, _)
MFReachScan(i, u, c, st0) ==
    With(st0, LAMBDA st :
        IF i > Len(c.keys[u]) THEN st
        ELSE LET v == c.keys[u][i] IN
             IF AboveEps(c.val[u][v]) /\ v \notin st.seen
             THEN MFReachScan(i + 1, u, c, [seen |-> st.seen \cup {v}, q |-> Append(st.q, v)])
             ELSE MFReachScan(i + 1, u, c, st))

RECURSIVE MFReachDrain(_, _)
MFReachDrain(c, st0) ==
    With(st0, LAMBDA st :
        IF st.q = <<>> THEN st.seen
        ELSE MFReachDrain(c, MFReachScan(1, Head(st.q), c, [st EXCEPT !.q = Tail(@)])))

\* the set that ignores the residual capacities and holds the source alone
MFReachableSourceOnly(c, s) == {s}

\* _reachable_in_residual(s)
MFReachable(c, s) == MFReachDrain(c, [seen |-> {s}, q |-> <<s>>])

MFIdle ==
    /\ mfPc = "none"
    /\ mfCap = <<>>
    /\ mfSource = None
    /\ mfSink = None
    /\ mfFlow = 0
    /\ mfS = {}

\* the constructor accepts every capacity
MFAcceptsAll(es, kinds) == FALSE

\* the constructor's tests on a capacity: None, or float(c) fails, or c < 0
MFRejects(es, kinds) ==
    \E i \in DOMAIN es : kinds[i] = "None" \/ kinds[i] = "str" \/ es[i][3] < 0

\* MaxFlow(nodes, edges): InvalidPathError at the first capacity rejected, and no
\* object then
MFNew ==
    /\ mfPc = "none"
    /\ IF MFRejects(edges, capKind)
       THEN /\ mfPc' = "InvalidPathError"
            /\ UNCHANGED mfCap
       ELSE /\ mfCap' = MFConstruct(nodes, edges)
            /\ mfPc' = "built"
    /\ UNCHANGED <<mfSource, mfSink, mfFlow, mfS, spVars, bfVars, fwVars, dsVars, gbVars, cbVars, plVars>>

\* run(source, sink) up to its loop
MFRun(s, t) ==
    /\ mfPc = "built"
    /\ mfSource' = s
    /\ mfSink' = t
    /\ mfFlow' = 0
    /\ mfPc' = IF s \notin Range(nodes) \/ t \notin Range(nodes) THEN "ValueError" ELSE "loop"
    /\ UNCHANGED <<mfCap, mfS, spVars, bfVars, fwVars, dsVars, gbVars, cbVars, plVars>>

\* one iteration of "while True" that finds an augmenting path and pushes its
\* bottleneck
MFAugment ==
    /\ mfPc = "loop"
    /\ \E r \in {MFBfs(mfCap, nodes, mfSource, mfSink)} :
        /\ r.aug # None
        /\ AboveEps(r.aug)
        /\ mfFlow' = mfFlow + r.aug
        /\ mfCap' = MFPush(mfCap, r.parent, mfSink, mfSource, r.aug)
    /\ UNCHANGED <<mfPc, mfSource, mfSink, mfS, spVars, bfVars, fwVars, dsVars, gbVars, cbVars, plVars>>

\* the iteration that finds no augmenting path: break, the cut and the return
MFReturn ==
    /\ mfPc = "loop"
    /\ \E r \in {MFBfs(mfCap, nodes, mfSource, mfSink)} :
        r.aug = None \/ ~AboveEps(r.aug)
    /\ mfS' = MFReachable(mfCap, mfSource)
    /\ mfPc' = "returned"
    /\ UNCHANGED <<mfCap, mfSource, mfSink, mfFlow, spVars, bfVars, fwVars, dsVars, gbVars, cbVars, plVars>>

(***************************************************************************)
(* The dataset and the graph builders                                      *)
(*                                                                         *)
(* A star entry is [id, galaxy, hyper, links]; a link is [starId, weight,  *)
(* distance, capacity], a key the JSON link does not carry being Absent.   *)
(* The stars of all constellations are one list: every builder runs        *)
(* "for constellation ...: for star in constellation['starts']".          *)
(***************************************************************************)
\* a key that a JSON object does not carry
Absent == -1
\* a star without "galaxy_id"
NoGalaxy == 0

\* ids a dataset may declare, and one that no dataset declares
StarIds == {1, 2}
UndeclaredId == 3

\* the star's coordinates: "coordenates" x and y
CoordX(id) == 3 * id
CoordY(id) == 4 * id

\* the keys a link carries: none, or a weight, a distance and a capacity
LinkKinds ==
    {[weight |-> Absent, distance |-> Absent, capacity |-> Absent],
     [weight |-> 7, distance |-> 2, capacity |-> 3]}

LinkInputs ==
    {[starId |-> v, weight |-> k.weight, distance |-> k.distance, capacity |-> k.capacity] :
        v \in StarIds \cup {UndeclaredId}, k \in LinkKinds}

\* datasets of at most e star entries carrying at most l links in all
RECURSIVE DatasetsWithin(_, _)
DatasetsWithin(e, l) ==
    IF e = 0 THEN {<<>>}
    ELSE {<<>>} \cup
         UNION {{<<[id |-> i, galaxy |-> NoGalaxy, hyper |-> FALSE, links |-> ls]>> \o rest :
                    rest \in DatasetsWithin(e - 1, l - Len(ls))} :
                i \in StarIds, ls \in SeqUpTo(LinkInputs, l)}

\* datasets for the builders: at most MaxEntries entries (a star may be listed
\* more than once, as a star of several constellations is), MaxLinks links in all
BuilderDatasets == DatasetsWithin(MaxEntries, MaxLinks)

\* blocked_paths: empty, or one pair in either orientation, over declared and
\* undeclared ids (the builders test each pair of the set on its own)
BlockedInputs ==
    {{}} \cup {{p} : p \in (StarIds \cup {UndeclaredId}) \X (StarIds \cup {UndeclaredId})}

\* JsonLoader.find_star_by_id(v) finds a star
Declared(ds, v) == \E i \in DOMAIN ds : ds[i].id = v

\* integer square root; hypot is exact on the coordinates of the model
ISqrt(n) == CHOOSE r \in 0..n : r * r <= n /\ (r + 1) * (r + 1) > n

\* euclidean_distance between the stars u and v
EuclideanDistance(u, v) ==
    ISqrt((CoordX(v) - CoordX(u)) * (CoordX(v) - CoordX(u))
          + (CoordY(v) - CoordY(u)) * (CoordY(v) - CoordY(u)))

\* the pair as the link gives it, not sorted
PairAsGiven(u, v) == <<u, v>>

\* tuple(sorted((u, v)))
SortedPair(u, v) == IF u <= v THEN <<u, v>> ELSE <<v, u>>

\* sorted(nodes): the elements of a set of ids in increasing order
RECURSIVE SortedList(_)
SortedList(S) ==
    IF S = {} THEN <<>>
    ELSE LET m == CHOOSE x \in S : \A y \in S : x <= y IN <<m>> \o SortedList(S \ {m})

\* the result of a builder call before any call
NotBuilt == [builder |-> "none", nodes |-> {}, edges |-> <<>>]

\* bellman_ford.build_graph_from_loader (floyd_warshall's copy is the same code):
\* the loop over the links of entry i, from link j on; acc is [nodes, edges]
RECURSIVE SPLinks(_, _, _, _, _)
SPLinks(ds, B, i, j, acc) ==
    IF j > Len(ds[i].links) THEN acc
    ELSE LET u == ds[i].id
             link == ds[i].links[j]
             v == link.starId
         IN IF ~Declared(ds, v) THEN SPLinks(ds, B, i, j + 1, acc)
            ELSE IF SortedPair(u, v) \in B THEN SPLinks(ds, B, i, j + 1, acc)
            ELSE LET w == IF link.weight # Absent THEN link.weight
                          ELSE EuclideanDistance(u, v)
                 IN SPLinks(ds, B, i, j + 1,
                            [nodes |-> acc.nodes \cup {v},
                             edges |-> acc.edges \o <<(<<u, v, w>>), (<<v, u, w>>)>>])

RECURSIVE SPStars(_, _, _, _)
SPStars(ds, B, i, acc) ==
    IF i > Len(ds) THEN acc
    ELSE SPStars(ds, B, i + 1,
                 SPLinks(ds, B, i, 1, [acc EXCEPT !.nodes = @ \cup {ds[i].id}]))

BuildSP(ds, B) ==
    LET r == SPStars(ds, B, 1, [nodes |-> {}, edges |-> <<>>])
    IN [builder |-> "sp", nodes |-> SortedList(r.nodes), edges |-> r.edges]

\* MaxFlow.build_flow_graph_from_loader with the default capacity_key and
\* default_capacity; acc is [nodes, edges, error]
RECURSIVE FlowLinks(_, _, _, _, _, _)
FlowLinks(ds, B, undirected, i, j, acc) ==
    IF j > Len(ds[i].links) \/ acc.error THEN acc
    ELSE LET u == ds[i].id
             link == ds[i].links[j]
             v == link.starId
         IN IF ~Declared(ds, v) THEN FlowLinks(ds, B, undirected, i, j + 1, acc)
            ELSE IF SortedPair(u, v) \in B THEN FlowLinks(ds, B, undirected, i, j + 1, acc)
            ELSE LET cap == IF link.capacity # Absent THEN link.capacity ELSE 1
                 IN IF cap < 0 THEN [acc EXCEPT !.error = TRUE]
                    ELSE FlowLinks(ds, B, undirected, i, j + 1,
                            [nodes |-> acc.nodes \cup {v},
                             edges |-> acc.edges \o
                                (IF undirected THEN <<(<<u, v, cap>>), (<<v, u, cap>>)>>
                                 ELSE <<(<<u, v, cap>>)>>),
                             error |-> FALSE])

RECURSIVE FlowStars(_, _, _, _, _)
FlowStars(ds, B, undirected, i, acc) ==
    IF i > Len(ds) \/ acc.error THEN acc
    ELSE FlowStars(ds, B, undirected, i + 1,
                   FlowLinks(ds, B, undirected, i, 1, [acc EXCEPT !.nodes = @ \cup {ds[i].id}]))

BuildFlow(ds, B, undirected) ==
    LET r == FlowStars(ds, B, undirected, 1, [nodes |-> {}, edges |-> <<>>, error |-> FALSE])
    IN IF r.error THEN [builder |-> "InvalidPathError", nodes |-> {}, edges |-> <<>>]
       ELSE [builder |-> IF undirected THEN "flow" ELSE "flow-directed",
             nodes |-> SortedList(r.nodes), edges |-> r.edges]

\* core.graph_utils.build_graph_from_loader, the planner's builder; acc is
\* [nodes, edges, seen]
RECURSIVE GULinks(_, _, _, _, _)
GULinks(ds, B, i, j, acc) ==
    IF j > Len(ds[i].links) THEN acc
    ELSE LET sid == ds[i].id
             link == ds[i].links[j]
             target == link.starId
         IN IF <<sid, target>> \in B \/ <<target, sid>> \in B
            THEN GULinks(ds, B, i, j + 1, acc)
            ELSE LET d == IF link.distance # Absent THEN link.distance ELSE 1
                     key == SortedPair(sid, target)
                 IN IF key \notin acc.seen
                    THEN GULinks(ds, B, i, j + 1,
                            [nodes |-> acc.nodes,
                             edges |-> acc.edges \o <<(<<sid, target, d>>), (<<target, sid, d>>)>>,
                             seen |-> acc.seen \cup {key}])
                    ELSE GULinks(ds, B, i, j + 1, acc)

RECURSIVE GUStars(_, _, _, _)
GUStars(ds, B, i, acc) ==
    IF i > Len(ds) THEN acc
    ELSE GUStars(ds, B, i + 1,
                 GULinks(ds, B, i, 1, [acc EXCEPT !.nodes = @ \cup {ds[i].id}]))

\* the node list is list(nodes) of a set: its order is not the builder's to
\* choose, and the model keeps the set
BuildGU(ds, B) ==
    LET r == GUStars(ds, B, 1, [nodes |-> {}, edges |-> <<>>, seen |-> {}])
    IN [builder |-> "gu", nodes |-> r.nodes, edges |-> r.edges]

DSIdle ==
    /\ dataset = <<>>
    /\ blocked = {}

GBIdle == built = NotBuilt

SPIdle ==
    /\ nodes = <<>>
    /\ edges = <<>>
    /\ capKind = <<>>

\* a call of the shortest-path builder
CallBuildSP ==
    /\ built.builder = "none"
    /\ built' = BuildSP(dataset, blocked)
    /\ UNCHANGED <<dsVars, spVars, bfVars, fwVars, mfVars, cbVars, plVars>>

\* a call of the flow builder, with either value of undirected
CallBuildFlow(undirected) ==
    /\ built.builder = "none"
    /\ built' = BuildFlow(dataset, blocked, undirected)
    /\ UNCHANGED <<dsVars, spVars, bfVars, fwVars, mfVars, cbVars, plVars>>

\* a call of the planner's builder
CallBuildGU ==
    /\ built.builder = "none"
    /\ built' = BuildGU(dataset, blocked)
    /\ UNCHANGED <<dsVars, spVars, bfVars, fwVars, mfVars, cbVars, plVars>>

(***************************************************************************)
(* The carrier: core.burro.Burro, a dataclass of seven fields.  Instances  *)
(* live in heap under a reference, so that a copy and its original are     *)
(* two objects and an alias is one.  Ages, distances and energies are      *)
(* integers; the energies of the model are even, so 0.5 * energia is       *)
(* exact.                                                                  *)
(***************************************************************************)
Max(a, b) == IF a >= b THEN a ELSE b
Min(a, b) == IF a <= b THEN a ELSE b

\* class Health
Health == {"Excelente", "Buena", "Regular", "Mala", "Moribundo", "Muerto"}

\* Burro.from_json on the keys burroenergiaInicial, estadoSalud, pasto,
\* startAge, deathAge (estadoSalud already a Health value)
from_json(data) ==
    [energia |-> Max(0, Min(100, data.burroenergiaInicial)),
     salud |-> data.estadoSalud,
     pasto_kg |-> Max(0, data.pasto),
     edad_inicial |-> data.startAge,
     edad_actual |-> data.startAge,
     edad_muerte |-> data.deathAge,
     vida_restante |-> Max(0, data.deathAge - data.startAge)]

\* Burro.esta_muerto
esta_muerto(self) ==
    \/ self.vida_restante <= 0
    \/ self.edad_actual >= self.edad_muerte
    \/ self.salud = "Muerto"

\* Burro.viajar without the test on esta_muerto
viajar_when_dead(self, distancia_ly) ==
    [self EXCEPT !.vida_restante = @ - Max(0, distancia_ly),
                 !.edad_actual = @ + Max(0, distancia_ly)]

\* Burro.viajar taking one light-year more than the distance
viajar_longer(self, distancia_ly) ==
    IF esta_muerto(self) THEN self
    ELSE [self EXCEPT !.vida_restante = @ - (Max(0, distancia_ly) + 1),
                      !.edad_actual = @ + (Max(0, distancia_ly) + 1)]

\* Burro.viajar taking the distance as given, a negative one too
viajar_unclamped(self, distancia_ly) ==
    IF esta_muerto(self) THEN self
    ELSE LET moved == [self EXCEPT !.vida_restante = @ - distancia_ly,
                                   !.edad_actual = @ + distancia_ly]
         IN IF moved.vida_restante <= 0 \/ moved.edad_actual >= moved.edad_muerte
            THEN [moved EXCEPT !.salud = "Muerto"]
            ELSE moved

\* Burro.viajar: the instance after the call
viajar(self, distancia_ly) ==
    IF esta_muerto(self) THEN self
    ELSE LET d == Max(0, distancia_ly)
             moved == [self EXCEPT !.vida_restante = @ - d, !.edad_actual = @ + d]
         IN IF moved.vida_restante <= 0 \/ moved.edad_actual >= moved.edad_muerte
            THEN [moved EXCEPT !.salud = "Muerto"]
            ELSE moved

\* ENERGY_PER_KG
ENERGY_PER_KG(salud) ==
    CASE salud = "Excelente" -> 5
      [] salud = "Buena" -> 4
      [] salud = "Regular" -> 3
      [] salud = "Mala" -> 2
      [] salud = "Moribundo" -> 1
      [] salud = "Muerto" -> 0

\* a / b and 0.5 * a on floats; exact on the arguments of the model, where b
\* divides a and a is even or the result is capped
FDiv(a, b) == a \div b
Half(a) == a \div 2

\* Burro.comer_en_estrella without the test on the energy
comer_at_any_energy(self, tiempo_visita, tiempo_por_kg) ==
    IF esta_muerto(self) THEN [self |-> self, ret |-> 0]
    ELSE IF tiempo_visita <= 0 \/ tiempo_por_kg <= 0 \/ self.pasto_kg <= 0
         THEN [self |-> self, ret |-> 0]
    ELSE LET kg_a_comer == Max(0, Min(self.pasto_kg, FDiv(Half(tiempo_visita), tiempo_por_kg)))
         IN [self |-> [self EXCEPT !.energia = Min(100, @ + ENERGY_PER_KG(self.salud) * kg_a_comer),
                                   !.pasto_kg = @ - kg_a_comer],
             ret |-> kg_a_comer]

\* Burro.comer_en_estrella giving the whole visit to eating, not half of it
comer_whole_visit(self, tiempo_visita, tiempo_por_kg) ==
    IF esta_muerto(self) THEN [self |-> self, ret |-> 0]
    ELSE IF self.energia >= 50 THEN [self |-> self, ret |-> 0]
    ELSE IF tiempo_visita <= 0 \/ tiempo_por_kg <= 0 \/ self.pasto_kg <= 0
         THEN [self |-> self, ret |-> 0]
    ELSE LET kg_a_comer == Max(0, Min(self.pasto_kg, FDiv(tiempo_visita, tiempo_por_kg)))
         IN [self |-> [self EXCEPT !.energia = Min(100, @ + ENERGY_PER_KG(self.salud) * kg_a_comer),
                                   !.pasto_kg = @ - kg_a_comer],
             ret |-> kg_a_comer]

\* Burro.comer_en_estrella: the instance after the call and the kg returned
comer_en_estrella(self, tiempo_visita, tiempo_por_kg) ==
    IF esta_muerto(self) THEN [self |-> self, ret |-> 0]
    ELSE IF self.energia >= 50 THEN [self |-> self, ret |-> 0]
    ELSE IF tiempo_visita <= 0 \/ tiempo_por_kg <= 0 \/ self.pasto_kg <= 0
         THEN [self |-> self, ret |-> 0]
    ELSE LET max_tiempo_comer == Half(tiempo_visita)
             kg_posibles == FDiv(max_tiempo_comer, tiempo_por_kg)
             kg_a_comer == Max(0, Min(self.pasto_kg, kg_posibles))
         IN IF kg_a_comer <= 0 THEN [self |-> self, ret |-> 0]
            ELSE [self |-> [self EXCEPT
                               !.energia = Min(100, @ + ENERGY_PER_KG(self.salud) * kg_a_comer),
                               !.pasto_kg = @ - kg_a_comer],
                  ret |-> kg_a_comer]

\* Burro.investigar taking the whole consumption, whatever energy is left
investigar_overdrawn(self, tiempo_visita, costo_energia_por_x, x_tiempo) ==
    IF esta_muerto(self) THEN [self |-> self, ret |-> 0]
    ELSE IF tiempo_visita <= 0 \/ costo_energia_por_x <= 0 \/ x_tiempo <= 0
         THEN [self |-> self, ret |-> 0]
    ELSE LET consumo == costo_energia_por_x * FDiv(tiempo_visita, x_tiempo)
         IN [self |-> [self EXCEPT !.energia = @ - consumo], ret |-> consumo]

\* Burro.investigar leaving the health as it was when the energy runs out
investigar_keeps_health(self, tiempo_visita, costo_energia_por_x, x_tiempo) ==
    IF esta_muerto(self) THEN [self |-> self, ret |-> 0]
    ELSE IF tiempo_visita <= 0 \/ costo_energia_por_x <= 0 \/ x_tiempo <= 0
         THEN [self |-> self, ret |-> 0]
    ELSE LET consumo_real == Min(costo_energia_por_x * FDiv(tiempo_visita, x_tiempo),
                                 Max(0, self.energia))
         IN [self |-> [self EXCEPT !.energia = Max(0, @ - consumo_real)], ret |-> consumo_real]

\* Burro.investigar: the instance after the call and the energy returned
investigar(self, tiempo_visita, costo_energia_por_x, x_tiempo) ==
    IF esta_muerto(self) THEN [self |-> self, ret |-> 0]
    ELSE IF tiempo_visita <= 0 \/ costo_energia_por_x <= 0 \/ x_tiempo <= 0
         THEN [self |-> self, ret |-> 0]
    ELSE LET bloques == FDiv(tiempo_visita, x_tiempo)
             consumo == costo_energia_por_x * bloques
             consumo_real == Min(consumo, Max(0, self.energia))
             left == self.energia - consumo_real
         IN [self |-> IF left <= 0
                      THEN [self EXCEPT !.energia = 0, !.salud = "Muerto"]
                      ELSE [self EXCEPT !.energia = Max(0, left)],
             ret |-> consumo_real]

\* Burro.aplicar_evento_salud setting the health it is given before looking at
\* the lifespan
evento_health_first(self, delta_vida, nueva_salud) ==
    IF esta_muerto(self) THEN self
    ELSE LET vida == self.vida_restante + delta_vida
         IN IF nueva_salud # "None"
            THEN [self EXCEPT !.vida_restante = vida, !.salud = nueva_salud]
            ELSE IF vida <= 0 THEN [self EXCEPT !.vida_restante = vida, !.salud = "Muerto"]
            ELSE [self EXCEPT !.vida_restante = vida]

\* Burro.aplicar_evento_salud; nueva_salud is "None" or a Health value
aplicar_evento_salud(self, delta_vida, nueva_salud) ==
    IF esta_muerto(self) THEN self
    ELSE LET vida == self.vida_restante + delta_vida
         IN IF vida <= 0 THEN [self EXCEPT !.vida_restante = vida, !.salud = "Muerto"]
            ELSE IF nueva_salud # "None"
                 THEN [self EXCEPT !.vida_restante = vida, !.salud = nueva_salud]
            ELSE [self EXCEPT !.vida_restante = vida]

\* Burro.hipergigante_boost without the cap at 100
boost_uncapped(self) ==
    IF esta_muerto(self) THEN self
    ELSE [self EXCEPT !.energia = @ + Half(@), !.pasto_kg = @ * 2]

\* Burro.hipergigante_boost: the instance after the call
hipergigante_boost(self) ==
    IF esta_muerto(self) THEN self
    ELSE [self EXCEPT !.energia = Min(100, @ + Half(@)), !.pasto_kg = @ * 2]

\* hypergiants.apply_hypergiant_effects: the instance after the call
apply_hypergiant_effects(b) ==
    [b EXCEPT !.energia = Min(100, @ + @ \div 2), !.pasto_kg = @ * 2]

\* references: the caller's instance and the one copy.deepcopy allocates
RealRef == 1
CloneRef == 2
\* a reference that holds no instance
NoBurro == [energia |-> 0, salud |-> "Muerto", pasto_kg |-> 0, edad_inicial |-> 0,
            edad_actual |-> 0, edad_muerte |-> 0, vida_restante |-> 0]

\* the carriers a caller hands over: built by from_json at age 0
DeathAges == {0, 3}
Energies == {40, 80}
CarrierInputs ==
    {from_json([burroenergiaInicial |-> e, estadoSalud |-> "Buena", pasto |-> 5,
                startAge |-> 0, deathAge |-> a]) : e \in Energies, a \in DeathAges}

\* no carrier exists
NoCall == [op |-> "none", args |-> <<>>]
CallIdle ==
    /\ call = NoCall
    /\ ret = 0
    /\ ops = 0
    /\ engine = None
    /\ history = <<>>
CBIdle ==
    /\ heap = [r \in {RealRef, CloneRef} |-> NoBurro]
    /\ CallIdle

\* the carriers the calls are made on: built by from_json
BurroInputs ==
    {from_json([burroenergiaInicial |-> e, estadoSalud |-> h, pasto |-> p,
                startAge |-> 0, deathAge |-> a]) :
        e \in {0, 48, 50, 80}, h \in {"Excelente", "Buena", "Muerto"}, p \in {0, 16}, a \in DeathAges}

\* arguments of the calls
Distances == {-1, 0, 2}
VisitTimes == {0, 32}
TimesPerKg == {0, 1}
EnergyCosts == {0, 112}
BlockTimes == {0, 32}
LifeDeltas == {-3, 0, 2}
NewHealths == {"None", "Mala", "Muerto"}

\* one more call may be made
MayCall == ops < MaxOps

\* the call is recorded; the rest of the program is not touched
Called(name, args, after, value) ==
    /\ heap' = [heap EXCEPT ![RealRef] = after]
    /\ call' = [op |-> name, args |-> args]
    /\ ret' = value
    /\ ops' = ops + 1
    /\ UNCHANGED <<dsVars, gbVars, spVars, bfVars, fwVars, mfVars, plVars, engVars>>

CallViajar(distancia_ly) ==
    /\ MayCall
    /\ Called("viajar", <<distancia_ly>>, viajar(heap[RealRef], distancia_ly), 0)

CallComer(tiempo_visita, tiempo_por_kg) ==
    /\ MayCall
    /\ LET r == comer_en_estrella(heap[RealRef], tiempo_visita, tiempo_por_kg)
       IN Called("comer_en_estrella", <<tiempo_visita, tiempo_por_kg>>, r.self, r.ret)

CallInvestigar(tiempo_visita, costo_energia_por_x, x_tiempo) ==
    /\ MayCall
    /\ LET r == investigar(heap[RealRef], tiempo_visita, costo_energia_por_x, x_tiempo)
       IN Called("investigar", <<tiempo_visita, costo_energia_por_x, x_tiempo>>, r.self, r.ret)

CallEventoSalud(delta_vida, nueva_salud) ==
    /\ MayCall
    /\ Called("aplicar_evento_salud", <<delta_vida, nueva_salud>>,
              aplicar_evento_salud(heap[RealRef], delta_vida, nueva_salud), 0)

CallBoost ==
    /\ MayCall
    /\ Called("hipergigante_boost", <<>>, hipergigante_boost(heap[RealRef]), 0)

\* hypergiants.apply_hypergiant_effects called on the carrier
CallApplyEffects ==
    /\ MayCall
    /\ Called("apply_hypergiant_effects", <<>>, apply_hypergiant_effects(heap[RealRef]), 0)

(***************************************************************************)
(* BurroRuntimeEngine and its BurroAdapter.  The adapter's _copy is a      *)
(* reference into heap; the Burro class has every method the adapter       *)
(* looks for with hasattr, so the adapter's fallbacks are never taken.     *)
(***************************************************************************)
\* StarEffect(): the defaults of the dataclass, less the note
DefaultEffect ==
    [vida_ly |-> 0, energia |-> 0, alimento |-> 0, tiempo_visita |-> 0, tiempo_por_kg |-> 0,
     invest_cost_per_x |-> 0, invest_x_time |-> 0, set_salud |-> "None", hyper_boost |-> FALSE]

\* the adapter keeping the instance it was given
adapter_keeps_instance(h, burro_real) == [ref |-> burro_real, heap |-> h]

\* BurroAdapter.__init__ on a Burro: dataclasses.replace allocates a new
\* instance with the same fields
BurroAdapter_init(h, burro_real) ==
    [ref |-> CloneRef, heap |-> [h EXCEPT ![CloneRef] = h[burro_real]]]

\* BurroAdapter.set_energia and set_alimento
set_energia(copy, value) == [copy EXCEPT !.energia = Max(0, Min(100, value))]
set_alimento(copy, value) == [copy EXCEPT !.pasto_kg = Max(0, value)]

\* BurroAdapter.viajar: the copy after the call and the change of lifespan returned
BurroAdapter_viajar(copy, distancia_ly) ==
    LET after == viajar(copy, Max(0, distancia_ly))
    IN [self |-> after, ret |-> after.vida_restante - copy.vida_restante]

\* BurroAdapter.comer
BurroAdapter_comer(copy, tiempo_visita, tiempo_por_kg) ==
    IF tiempo_visita <= 0 \/ tiempo_por_kg <= 0 THEN [self |-> copy, ret |-> 0]
    ELSE comer_en_estrella(copy, tiempo_visita, tiempo_por_kg)

\* BurroAdapter.investigar
BurroAdapter_investigar(copy, tiempo_visita, cost_per_x, x_time) ==
    IF tiempo_visita <= 0 \/ cost_per_x <= 0 \/ x_time <= 0 THEN [self |-> copy, ret |-> 0]
    ELSE investigar(copy, tiempo_visita, cost_per_x, x_time)

\* BurroAdapter.aplicar_evento_salud; set_salud is "None" or the name of a Health
BurroAdapter_aplicar_evento_salud(copy, delta_vida, set_salud) ==
    aplicar_evento_salud(copy, delta_vida, set_salud)

\* BurroRuntimeEngine.state
state(copy) ==
    [vida_restante |-> copy.vida_restante, energia |-> copy.energia,
     pasto_kg |-> copy.pasto_kg, salud |-> copy.salud]

\* BurroRuntimeEngine.apply_step (lines 295-368): the copy after the step and
\* the StepRecap, less the star ids, the label and the note
apply_step(copy, distancia_ly, effect) ==
    LET travelled == BurroAdapter_viajar(copy, distancia_ly)
        fed == IF effect.tiempo_visita > 0 /\ effect.tiempo_por_kg > 0
                  /\ travelled.self.pasto_kg > 0
               THEN BurroAdapter_comer(travelled.self, effect.tiempo_visita, effect.tiempo_por_kg)
               ELSE [self |-> travelled.self, ret |-> 0]
        studied == IF effect.tiempo_visita > 0 /\ effect.invest_cost_per_x > 0
                      /\ effect.invest_x_time > 0
                   THEN BurroAdapter_investigar(fed.self, effect.tiempo_visita,
                                                effect.invest_cost_per_x, effect.invest_x_time)
                   ELSE [self |-> fed.self, ret |-> 0]
        boosted == IF effect.hyper_boost THEN apply_hypergiant_effects(studied.self)
                   ELSE studied.self
        treated == IF effect.vida_ly # 0 \/ effect.set_salud # "None"
                   THEN BurroAdapter_aplicar_evento_salud(boosted, effect.vida_ly, effect.set_salud)
                   ELSE boosted
        charged == IF effect.energia # 0
                   THEN set_energia(treated, treated.energia + effect.energia)
                   ELSE treated
        loaded == IF effect.alimento # 0
                  THEN set_alimento(charged, charged.pasto_kg + effect.alimento)
                  ELSE charged
    IN [self |-> loaded,
        recap |-> [distancia_ly |-> distancia_ly,
                   vida_antes |-> copy.vida_restante,
                   vida_delta_viaje |-> travelled.ret,
                   vida_delta_estrella |-> effect.vida_ly,
                   vida_despues |-> loaded.vida_restante,
                   energia_antes |-> copy.energia,
                   energia_delta |-> effect.energia,
                   energia_despues |-> loaded.energia,
                   alimento_antes |-> copy.pasto_kg,
                   alimento_delta |-> effect.alimento,
                   alimento_despues |-> loaded.pasto_kg,
                   kg_comidos |-> fed.ret,
                   energia_investigada |-> studied.ret,
                   hyper_boost_aplicado |-> effect.hyper_boost,
                   salud_antes |-> copy.salud,
                   salud_despues |-> loaded.salud]]

\* BurroRuntimeEngine(real_burro) on the caller's carrier
EngineNew ==
    /\ engine = None
    /\ LET made == BurroAdapter_init(heap, RealRef)
       IN /\ heap' = made.heap
          /\ engine' = made.ref
    /\ history' = <<>>
    /\ call' = [op |-> "BurroRuntimeEngine", args |-> <<>>]
    /\ UNCHANGED <<ret, ops>>
    /\ UNCHANGED <<dsVars, gbVars, spVars, bfVars, fwVars, mfVars, plVars>>

\* engine.apply_step(distancia_ly=..., effect=...)
EngineStep(distancia_ly, effect) ==
    /\ engine # None
    /\ MayCall
    /\ LET r == apply_step(heap[engine], distancia_ly, effect)
       IN /\ heap' = [heap EXCEPT ![engine] = r.self]
          /\ history' = Append(history, r.recap)
          /\ ret' = r.recap
    /\ call' = [op |-> "apply_step", args |-> <<distancia_ly, effect>>]
    /\ ops' = ops + 1
    /\ UNCHANGED engine
    /\ UNCHANGED <<dsVars, gbVars, spVars, bfVars, fwVars, mfVars, plVars>>

(***************************************************************************)
(* MaxRoutePlanner.  The loader is the dataset; _star_index and            *)
(* _hgs_by_galaxy, built once by __init__ from it, are operators on it.    *)
(***************************************************************************)
\* the stars of the planner's datasets, each listed once, in file order
PlanStars == <<1, 2, 3>>
\* the "galaxy_id" values a star carries
GalaxyIds == {1, 2}
\* the "distance" a link carries: none (1.0 is then used), 0 or 2
LinkDistances == {Absent, 0, 2}
\* the links a dataset may declare, each from the smaller id to the larger
PlanLinkInputs ==
    {[starId |-> v, from |-> u, weight |-> Absent, distance |-> dd, capacity |-> Absent] :
        u \in Range(PlanStars), v \in Range(PlanStars), dd \in LinkDistances}

\* the links of ls that star u declares, in the order of ls, as the builders read them
LinksOf(ls, u) ==
    LET Mine(l) == l.from = u
        own == SelectSeq(ls, Mine)
    IN [i \in DOMAIN own |->
          [starId |-> own[i].starId, weight |-> own[i].weight,
           distance |-> own[i].distance, capacity |-> own[i].capacity]]

\* at most MaxLinks links, no two over the same pair, listed by increasing (from, to)
PlanLinkLists ==
    {ls \in SeqUpTo(PlanLinkInputs, MaxLinks) :
        /\ \A i \in DOMAIN ls : ls[i].from < ls[i].starId
        /\ \A i \in DOMAIN ls : \A j \in DOMAIN ls :
              i < j => \/ ls[i].from < ls[j].from
                       \/ (ls[i].from = ls[j].from /\ ls[i].starId < ls[j].starId)}

PlanDatasets ==
    {[i \in DOMAIN PlanStars |->
        [id |-> PlanStars[i], galaxy |-> g[i], hyper |-> h[i], links |-> LinksOf(ls, PlanStars[i])]] :
        g \in [DOMAIN PlanStars -> GalaxyIds],
        h \in [DOMAIN PlanStars -> BOOLEAN],
        ls \in PlanLinkLists}

\* a larger dataset: three stars of galaxy 1 and one of galaxy 2, so that a
\* hypergiant of galaxy 1 can have a neighbour left while a jump is on offer
HubStars == <<1, 2, 3, 4>>
HubGalaxy == <<1, 1, 1, 2>>
HubLinkInputs ==
    {[starId |-> v, from |-> u, weight |-> Absent, distance |-> dd, capacity |-> Absent] :
        u \in Range(HubStars), v \in Range(HubStars), dd \in LinkDistances}
HubLinkLists ==
    {ls \in SeqUpTo(HubLinkInputs, MaxLinks) :
        /\ \A i \in DOMAIN ls : ls[i].from < ls[i].starId
        /\ \A i \in DOMAIN ls : \A j \in DOMAIN ls :
              i < j => \/ ls[i].from < ls[j].from
                       \/ (ls[i].from = ls[j].from /\ ls[i].starId < ls[j].starId)}
HubDatasets ==
    {[i \in DOMAIN HubStars |->
        [id |-> HubStars[i], galaxy |-> HubGalaxy[i], hyper |-> h[i],
         links |-> LinksOf(ls, HubStars[i])]] :
        h \in [DOMAIN HubStars -> BOOLEAN],
        ls \in HubLinkLists}
HubStartInputs == Range(HubStars) \cup {Len(HubStars) + 1}
\* the carriers handed over with the larger dataset: those of CarrierInputs and
\* one that from_json builds with health Muerto and lifespan left
HubCarrierInputs ==
    CarrierInputs \cup
    {from_json([burroenergiaInicial |-> 40, estadoSalud |-> "Muerto", pasto |-> 5,
                startAge |-> 0, deathAge |-> 3])}

\* start_star_id: a star of the dataset or an id that is not one
StartInputs == Range(PlanStars) \cup {Len(PlanStars) + 1}
\* max_hops: one hop, or the default
DefaultMaxHops == 10000
HopCeilings == {1, DefaultMaxHops}
\* blocked_paths handed to the planner
PlanBlocked == {{}, {<<2, 1>>}}

\* self._star_index[sid]: the last entry of that id
StarOf(ds, sid) ==
    ds[CHOOSE i \in DOMAIN ds : ds[i].id = sid /\ \A j \in DOMAIN ds : ds[j].id = sid => j <= i]

\* hypergiants.is_hypergiant
is_hypergiant(star) == star.hyper

\* self._hgs_by_galaxy: its keys, and the stars listed under a key
HgGalaxies(ds) == {ds[i].galaxy : i \in {j \in DOMAIN ds : is_hypergiant(ds[j])}}
HgsByGalaxy(ds, gid) ==
    {ds[i].id : i \in {j \in DOMAIN ds : is_hypergiant(ds[j]) /\ ds[j].galaxy = gid}}

\* MaxRoutePlanner._galaxy_of
galaxy_of(ds, star_id) == IF Declared(ds, star_id) THEN StarOf(ds, star_id).galaxy ELSE NoGalaxy

\* adj.get(u, []): the (v, d) of the edges leaving u, in edge order
Adj(es, u) ==
    LET Leaves(e) == e[1] = u
        out == SelectSeq(es, Leaves)
    IN [i \in DOMAIN out |-> [v |-> out[i][2], d |-> out[i][3]]]

\* the first entry of least d: what a stable sort on d puts first
FirstByDistance(cs) ==
    cs[CHOOSE i \in DOMAIN cs :
          \A j \in DOMAIN cs : cs[i].d < cs[j].d \/ (cs[i].d = cs[j].d /\ i <= j)]

\* the choice made without the test on visited_stars
choose_next_revisiting(ds, es, cur, gal, visited, b) ==
    LET Eligible(n) ==
            /\ galaxy_of(ds, n.v) = gal
            /\ ~(n.d > b.vida_restante)
            /\ Declared(ds, n.v)
        candidates == SelectSeq(Adj(es, cur), Eligible)
    IN IF candidates = <<>> THEN None ELSE FirstByDistance(candidates).v

\* the choice made without the preference for hypergiants
choose_nearest(ds, es, cur, gal, visited, b) ==
    LET Eligible(n) ==
            /\ n.v \notin visited
            /\ galaxy_of(ds, n.v) = gal
            /\ ~(n.d > b.vida_restante)
            /\ Declared(ds, n.v)
        candidates == SelectSeq(Adj(es, cur), Eligible)
    IN IF candidates = <<>> THEN None ELSE FirstByDistance(candidates).v

\* the choice made without the test on the galaxy of the neighbour
choose_next_any_galaxy(ds, es, cur, gal, visited, b) ==
    LET Eligible(n) ==
            /\ n.v \notin visited
            /\ ~(n.d > b.vida_restante)
            /\ Declared(ds, n.v)
        candidates == SelectSeq(Adj(es, cur), Eligible)
    IN IF candidates = <<>> THEN None ELSE FirstByDistance(candidates).v

\* MaxRoutePlanner._choose_next_in_galaxy: a star id or None
choose_next_in_galaxy(ds, es, cur, gal, visited, b) ==
    LET Eligible(n) ==
            /\ n.v \notin visited
            /\ galaxy_of(ds, n.v) = gal
            /\ ~(n.d > b.vida_restante)
            /\ Declared(ds, n.v)
        candidates == SelectSeq(Adj(es, cur), Eligible)
        IsHg(n) == is_hypergiant(StarOf(ds, n.v))
        hgs == SelectSeq(candidates, IsHg)
    IN IF candidates = <<>> THEN None
       ELSE IF hgs # <<>> THEN FirstByDistance(hgs).v
       ELSE FirstByDistance(candidates).v

\* the jump offered without the test on visited_galaxies
try_hyperjump_revisiting(ds, gal, visited_gal) ==
    UNION {{[dest_galaxy |-> gid, landing_hg |-> hg] : hg \in HgsByGalaxy(ds, gid)} :
              gid \in HgGalaxies(ds) \ {gal}}

\* MaxRoutePlanner._try_hyperjump: the dicts the two rng.choice calls can give;
\* empty where the method returns None
try_hyperjump(ds, gal, visited_gal) ==
    UNION {{[dest_galaxy |-> gid, landing_hg |-> hg] : hg \in HgsByGalaxy(ds, gid)} :
              gid \in HgGalaxies(ds) \ ({gal} \cup visited_gal)}

\* MaxRoutePlanner._edge_distance: <<d>> for the first edge u -> v, <<>> for None
edge_distance(es, u, v) ==
    LET To(n) == n.v = v
        found == SelectSeq(Adj(es, u), To)
    IN IF found = <<>> THEN <<>> ELSE <<found[1].d>>

\* MaxRoutePlanner._snapshot
snapshot(b) ==
    [energia |-> b.energia, pasto_kg |-> b.pasto_kg, vida |-> b.vida_restante, edad |-> b.edad_actual]

\* _mk_recap_row_move and _mk_recap_row_buff, less the texts
RecapRow(paso, gal, star, hg, before, after) ==
    [galaxy_id |-> gal, paso |-> paso, estrella |-> star, es_hipergigante |-> hg,
     delta_energia |-> after.energia - before.energia,
     delta_pasto |-> after.pasto_kg - before.pasto_kg,
     delta_vida |-> after.vida - before.vida]

\* the segment dict opened on entering a galaxy; jump_to is <<>> for None
NewSegment(gal, star) ==
    [galaxy_id |-> gal, entry_star |-> star, path |-> <<star>>,
     exit_hypergiant |-> None, jump_to |-> <<>>]

\* no copy: the planner would work on the caller's instance
SameInstance(h, ref) == [ref |-> ref, heap |-> h]
\* copy.deepcopy(real_burro): a new instance with the same fields
DeepCopy(h, ref) == [ref |-> CloneRef, heap |-> [h EXCEPT ![CloneRef] = h[ref]]]

\* the "sim_burro" dict of the result
SimBurro(b) ==
    [energia |-> b.energia, pasto_kg |-> b.pasto_kg,
     edad_actual |-> b.edad_actual, vida_restante |-> b.vida_restante]

\* the value of plan before plan_max_route returns
NoPlan ==
    [per_galaxy |-> <<>>, visited_stars |-> <<>>, visited_galaxies |-> {},
     life_left_ly |-> 0, sim_burro |-> SimBurro(NoBurro), recap |-> <<>>]

PLIdle ==
    /\ plPc = "idle"
    /\ burro = None
    /\ current = None
    /\ current_galaxy = NoGalaxy
    /\ visited_stars = {}
    /\ visited_galaxies = {}
    /\ segments = <<>>
    /\ segment = 0
    /\ itinerary = <<>>
    /\ recap_rows = <<>>
    /\ hops = 0
    /\ max_hops = 0
    /\ plan = NoPlan

\* lines 43-81: the clone, the graph, the start check and the initial state
PlanStart(start_star_id, hop_limit) ==
    /\ plPc = "idle"
    /\ LET clone == DeepCopy(heap, RealRef)
       IN /\ heap' = clone.heap
          /\ burro' = clone.ref
    /\ built' = BuildGU(dataset, blocked)
    /\ max_hops' = hop_limit
    /\ IF ~Declared(dataset, start_star_id)
       THEN /\ plPc' = "ValueError"
            /\ UNCHANGED <<current, current_galaxy, visited_stars, visited_galaxies,
                           segments, segment, itinerary, recap_rows, hops, plan>>
       ELSE /\ plPc' = "loop"
            /\ current' = start_star_id
            /\ current_galaxy' = galaxy_of(dataset, start_star_id)
            /\ visited_galaxies' = {galaxy_of(dataset, start_star_id)}
            /\ visited_stars' = {start_star_id}
            /\ itinerary' = <<>>
            /\ recap_rows' = <<>>
            /\ segments' = <<NewSegment(galaxy_of(dataset, start_star_id), start_star_id)>>
            /\ segment' = 1
            /\ hops' = 0
            /\ UNCHANGED plan
    /\ UNCHANGED <<dsVars, spVars, bfVars, fwVars, mfVars, callVars, engVars>>

\* the loop is entered once more (line 82)
InLoop == plPc = "loop" /\ hops < max_hops

\* the star the iteration chooses (lines 85-91)
NextStar ==
    choose_next_in_galaxy(dataset, built.edges, current, current_galaxy, visited_stars, heap[burro])

\* itinerary.append(segment); break
AppendAndBreak ==
    /\ hops' = hops + 1
    /\ itinerary' = Append(itinerary, segment)
    /\ plPc' = "break"
    /\ UNCHANGED <<built, heap, burro, current, current_galaxy, visited_stars, visited_galaxies,
                   segments, segment, recap_rows, max_hops, plan>>
    /\ UNCHANGED <<dsVars, spVars, bfVars, fwVars, mfVars, callVars, engVars>>

\* lines 100-126 and 160-186: the buff on the clone, the segment closed and
\* appended, the landing and the segment opened there.  b, star, seen and segs
\* are the carrier, the star, visited_stars and the segments at that point.
HyperJump(jump_info, b, star, seen, segs, rows) ==
    \E after \in {apply_hypergiant_effects(b)} :
       LET closed == [segs[segment] EXCEPT
                         !.exit_hypergiant = star,
                         !.jump_to = <<[galaxy_id |-> jump_info.dest_galaxy,
                                        landing_hg |-> jump_info.landing_hg]>>]
       IN /\ heap' = [heap EXCEPT ![burro] = after]
          /\ recap_rows' = Append(rows, RecapRow("buff", current_galaxy, star, TRUE,
                                                 snapshot(b), snapshot(after)))
          /\ itinerary' = Append(itinerary, segment)
          /\ current_galaxy' = jump_info.dest_galaxy
          /\ visited_galaxies' = visited_galaxies \cup {jump_info.dest_galaxy}
          /\ current' = jump_info.landing_hg
          /\ visited_stars' = seen \cup {jump_info.landing_hg}
          /\ segments' = Append([segs EXCEPT ![segment] = closed],
                                NewSegment(jump_info.dest_galaxy, jump_info.landing_hg))
          /\ segment' = Len(segs) + 1

\* lines 93-98 and 129-130: no star to move to and no jump to make
PlanStop ==
    /\ InLoop
    /\ NextStar = None
    /\ \/ ~is_hypergiant(StarOf(dataset, current))
       \/ try_hyperjump(dataset, current_galaxy, visited_galaxies) = {}
    /\ AppendAndBreak

\* lines 93-127: no star to move to, and a jump from the hypergiant the carrier is at
PlanJump ==
    /\ InLoop
    /\ NextStar = None
    /\ is_hypergiant(StarOf(dataset, current))
    /\ \E jump_info \in try_hyperjump(dataset, current_galaxy, visited_galaxies) :
          HyperJump(jump_info, heap[burro], current, visited_stars, segments, recap_rows)
    /\ hops' = hops + 1
    /\ UNCHANGED <<built, burro, plPc, max_hops, plan>>
    /\ UNCHANGED <<dsVars, spVars, bfVars, fwVars, mfVars, callVars, engVars>>

\* the move of lines 132-139 is refused: the edge is missing or the life does not suffice
MoveRefused(found) ==
    \/ found = <<>>
    \/ heap[burro].vida_restante <= 0
    \/ heap[burro].vida_restante - found[1] < 0

\* lines 132-139
PlanBreak ==
    /\ InLoop
    /\ \E next_star \in {NextStar} :
          /\ next_star # None
          /\ MoveRefused(edge_distance(built.edges, current, next_star))
    /\ AppendAndBreak

\* lines 141-186: the move, and the jump made on arriving at a hypergiant
PlanMove ==
    /\ InLoop
    /\ \E next_star \in {NextStar} :
          /\ next_star # None
          /\ \E found \in {edge_distance(built.edges, current, next_star)} :
                /\ ~MoveRefused(found)
                /\ \E moved \in {viajar(heap[burro], found[1])} :
                      LET rows == Append(recap_rows,
                                         RecapRow("tramo", current_galaxy, next_star,
                                                  is_hypergiant(StarOf(dataset, next_star)),
                                                  snapshot(heap[burro]), snapshot(moved)))
                          seen == visited_stars \cup {next_star}
                          segs == [segments EXCEPT ![segment].path = Append(@, next_star)]
                          jumps == IF is_hypergiant(StarOf(dataset, next_star))
                                   THEN try_hyperjump(dataset, current_galaxy, visited_galaxies)
                                   ELSE {}
                      IN IF jumps # {}
                         THEN \E jump_info \in jumps :
                                 HyperJump(jump_info, moved, next_star, seen, segs, rows)
                         ELSE /\ heap' = [heap EXCEPT ![burro] = moved]
                              /\ recap_rows' = rows
                              /\ current' = next_star
                              /\ visited_stars' = seen
                              /\ segments' = segs
                              /\ UNCHANGED <<itinerary, current_galaxy, visited_galaxies, segment>>
    /\ hops' = hops + 1
    /\ UNCHANGED <<built, burro, plPc, max_hops, plan>>
    /\ UNCHANGED <<dsVars, spVars, bfVars, fwVars, mfVars, callVars, engVars>>

\* sequences joined in order
RECURSIVE Flatten(_)
Flatten(ss) == IF ss = <<>> THEN <<>> ELSE Head(ss) \o Flatten(Tail(ss))

\* lines 188-205, after a break or with the hop ceiling reached: the open segment
\* is appended when the itinerary does not end with it, or else when its path is
\* not empty; then the result is built
PlanReturn ==
    /\ plPc = "break" \/ (plPc = "loop" /\ ~(hops < max_hops))
    /\ LET final == IF itinerary # <<>> /\ itinerary[Len(itinerary)] # segment
                    THEN Append(itinerary, segment)
                    ELSE IF segments[segment].path # <<>>
                    THEN Append(itinerary, segment)
                    ELSE itinerary
       IN /\ itinerary' = final
          /\ plan' = [per_galaxy |-> [i \in DOMAIN final |-> segments[final[i]]],
                      visited_stars |-> Flatten([i \in DOMAIN final |-> segments[final[i]].path]),
                      visited_galaxies |-> visited_galaxies,
                      life_left_ly |-> heap[burro].vida_restante,
                      sim_burro |-> SimBurro(heap[burro]),
                      recap |-> recap_rows]
    /\ plPc' = "done"
    /\ UNCHANGED <<built, heap, burro, current, current_galaxy, visited_stars, visited_galaxies,
                   segments, segment, recap_rows, hops, max_hops>>
    /\ UNCHANGED <<dsVars, spVars, bfVars, fwVars, mfVars, callVars, engVars>>

(***************************************************************************)
(* Specifications                                                          *)
(***************************************************************************)
\* BellmanFord.run from every origin, known or not, on every bounded graph
InitBF == GraphInit /\ BFIdle /\ FWIdle /\ MFIdle /\ DSIdle /\ GBIdle /\ CBIdle /\ PLIdle
NextBF ==
    \/ \E s \in 1..(NumNodes + 1) : BFStart(s)
    \/ BFPass
    \/ BFDetect
SpecBF == InitBF /\ [][NextBF]_vars

\* FloydWarshall construction and run on every bounded graph
InitFW == GraphInit /\ BFIdle /\ FWIdle /\ MFIdle /\ DSIdle /\ GBIdle /\ CBIdle /\ PLIdle
NextFW ==
    \/ FWNew
    \/ FWStep
    \/ FWFinish
SpecFW == InitFW /\ [][NextFW]_vars

\* MaxFlow construction and run between every two nodes, known or not
InitMF == FlowInit /\ BFIdle /\ FWIdle /\ MFIdle /\ DSIdle /\ GBIdle /\ CBIdle /\ PLIdle
NextMF ==
    \/ MFNew
    \/ \E s, t \in Range(nodes) \cup {Len(nodes) + 1} : MFRun(s, t)
    \/ MFAugment
    \/ MFReturn
SpecMF == InitMF /\ [][NextMF]_vars

\* MaxFlow from the first node to the last, and to itself, on every bounded network, each
\* run carried on to its end; the networks being every edge list over the
\* nodes, any other pair of nodes is this pair under a renaming
NextMFLive ==
    \/ MFNew
    \/ \E t \in {1, Len(nodes)} : MFRun(1, t)
    \/ MFAugment
    \/ MFReturn
SpecMFLive == InitMF /\ [][NextMFLive]_vars /\ WF_vars(MFAugment \/ MFReturn)

\* every graph builder on every bounded dataset and blocked-pair set
InitGB ==
    /\ dataset \in BuilderDatasets
    /\ blocked \in BlockedInputs
    /\ GBIdle /\ SPIdle /\ BFIdle /\ FWIdle /\ MFIdle /\ CBIdle /\ PLIdle
NextGB ==
    \/ CallBuildSP
    \/ \E undirected \in BOOLEAN : CallBuildFlow(undirected)
    \/ CallBuildGU
SpecGB == InitGB /\ [][NextGB]_vars

\* plan_max_route on every bounded dataset, start, carrier, hop ceiling and blocked set
InitPlan ==
    /\ dataset \in PlanDatasets
    /\ blocked \in PlanBlocked
    /\ heap \in {[r \in {RealRef, CloneRef} |-> IF r = RealRef THEN c ELSE NoBurro] :
                    c \in CarrierInputs}
    /\ GBIdle /\ SPIdle /\ BFIdle /\ FWIdle /\ MFIdle /\ PLIdle /\ CallIdle
NextPlan ==
    \/ \E start_star_id \in StartInputs, hop_limit \in HopCeilings :
          PlanStart(start_star_id, hop_limit)
    \/ PlanStop
    \/ PlanJump
    \/ PlanBreak
    \/ PlanMove
    \/ PlanReturn
SpecPlan == InitPlan /\ [][NextPlan]_vars

\* runs of plan_max_route carried on to their end: a call that has started takes
\* its next step as long as it has one.  Neither the energy nor the blocked
\* pairs decide how long a run lasts: one energy, nothing blocked.
InitPlanLive ==
    /\ dataset \in PlanDatasets
    /\ blocked = {}
    /\ heap \in {[r \in {RealRef, CloneRef} |-> IF r = RealRef THEN c ELSE NoBurro] :
                    c \in {x \in CarrierInputs : x.energia = 40}}
    /\ GBIdle /\ SPIdle /\ BFIdle /\ FWIdle /\ MFIdle /\ PLIdle /\ CallIdle
SpecPlanLive ==
    InitPlanLive /\ [][NextPlan]_vars
        /\ WF_vars(PlanStop \/ PlanJump \/ PlanBreak \/ PlanMove \/ PlanReturn)

\* plan_max_route on the four-star datasets, nothing blocked
InitHub ==
    /\ dataset \in HubDatasets
    /\ blocked = {}
    /\ heap \in {[r \in {RealRef, CloneRef} |-> IF r = RealRef THEN c ELSE NoBurro] :
                    c \in HubCarrierInputs}
    /\ GBIdle /\ SPIdle /\ BFIdle /\ FWIdle /\ MFIdle /\ PLIdle /\ CallIdle
NextHub ==
    \/ \E start_star_id \in HubStartInputs, hop_limit \in HopCeilings :
          PlanStart(start_star_id, hop_limit)
    \/ PlanStop
    \/ PlanJump
    \/ PlanBreak
    \/ PlanMove
    \/ PlanReturn
SpecHub == InitHub /\ [][NextHub]_vars

\* any MaxOps calls on a carrier built by from_json
InitBurro ==
    /\ heap \in {[r \in {RealRef, CloneRef} |-> IF r = RealRef THEN c ELSE NoBurro] :
                    c \in BurroInputs}
    /\ CallIdle
    /\ DSIdle /\ GBIdle /\ SPIdle /\ BFIdle /\ FWIdle /\ MFIdle /\ PLIdle
NextBurro ==
    \/ \E distancia_ly \in Distances : CallViajar(distancia_ly)
    \/ \E tiempo_visita \in VisitTimes, tiempo_por_kg \in TimesPerKg :
          CallComer(tiempo_visita, tiempo_por_kg)
    \/ \E tiempo_visita \in VisitTimes, costo \in EnergyCosts, x_tiempo \in BlockTimes :
          CallInvestigar(tiempo_visita, costo, x_tiempo)
    \/ \E delta_vida \in LifeDeltas, nueva_salud \in NewHealths :
          CallEventoSalud(delta_vida, nueva_salud)
    \/ CallBoost
    \/ CallApplyEffects
SpecBurro == InitBurro /\ [][NextBurro]_vars

\* the calls made at a star, with arguments that feed and investigate in part:
\* a visit of 32 with 1, 2 or 4 per kg (16, 8 or 4 kg allowed) and a cost of 8,
\* 48 or 112 for each block of 16 or 32
FeedTimesPerKg == {1, 2, 4}
InvestCosts == {8, 48, 112}
InvestBlocks == {16, 32}
VisitTime == 32
\* the carriers visiting a star: built by from_json, of every health
VisitInputs ==
    {from_json([burroenergiaInicial |-> e, estadoSalud |-> h, pasto |-> p,
                startAge |-> 0, deathAge |-> a]) :
        e \in {0, 48, 50, 80}, h \in Health, p \in {0, 16}, a \in DeathAges}
InitVisit ==
    /\ heap \in {[r \in {RealRef, CloneRef} |-> IF r = RealRef THEN c ELSE NoBurro] :
                    c \in VisitInputs}
    /\ CallIdle
    /\ DSIdle /\ GBIdle /\ SPIdle /\ BFIdle /\ FWIdle /\ MFIdle /\ PLIdle
NextVisit ==
    \/ \E distancia_ly \in Distances : CallViajar(distancia_ly)
    \/ \E tiempo_por_kg \in FeedTimesPerKg : CallComer(VisitTime, tiempo_por_kg)
    \/ \E costo \in InvestCosts, x_tiempo \in InvestBlocks :
          CallInvestigar(VisitTime, costo, x_tiempo)
    \/ \E delta_vida \in LifeDeltas, nueva_salud \in NewHealths :
          CallEventoSalud(delta_vida, nueva_salud)
SpecVisit == InitVisit /\ [][NextVisit]_vars

\* the carriers an engine is built on: alive, dead by health and dead by age
EngineInputs ==
    {from_json([burroenergiaInicial |-> e, estadoSalud |-> h, pasto |-> 16,
                startAge |-> 0, deathAge |-> a]) :
        e \in {48, 80}, h \in {"Buena", "Muerto"}, a \in DeathAges}
\* the effects of a star: none; a visit with time to eat 8 kg and to investigate
\* for 16 of energy; the boost of a hypergiant; two light-years more and the
\* health Mala; three light-years less; energy and food added; energy and food
\* taken, more than there can be
StarEffects ==
    {DefaultEffect,
     [DefaultEffect EXCEPT !.tiempo_visita = 32, !.tiempo_por_kg = 2,
                           !.invest_cost_per_x = 16, !.invest_x_time = 32],
     [DefaultEffect EXCEPT !.hyper_boost = TRUE],
     [DefaultEffect EXCEPT !.vida_ly = 2, !.set_salud = "Mala"],
     [DefaultEffect EXCEPT !.vida_ly = -3],
     [DefaultEffect EXCEPT !.energia = 16, !.alimento = 4],
     [DefaultEffect EXCEPT !.energia = -112, !.alimento = -64]}
StepDistances == {-1, 2}

\* a BurroRuntimeEngine built on a carrier, and any MaxOps steps applied
InitEngine ==
    /\ heap \in {[r \in {RealRef, CloneRef} |-> IF r = RealRef THEN c ELSE NoBurro] :
                    c \in EngineInputs}
    /\ CallIdle
    /\ DSIdle /\ GBIdle /\ SPIdle /\ BFIdle /\ FWIdle /\ MFIdle /\ PLIdle
NextEngine ==
    \/ EngineNew
    \/ \E distancia_ly \in StepDistances, effect \in StarEffects :
          EngineStep(distancia_ly, effect)
SpecEngine == InitEngine /\ [][NextEngine]_vars

\* the engines handed invalid input: both on two nodes and at most two edges,
\* MaxFlow reading a third component that may be negative, None or a string
InvalidEdgeInputs == SeqUpTo({1, 2} \X {1, 2} \X {-1, 1, 2}, 2)
InitInvalid ==
    /\ nodes = <<1, 2>>
    /\ edges \in InvalidEdgeInputs
    /\ capKind \in [DOMAIN edges -> {"float", "None", "str"}]
    /\ \A i \in DOMAIN edges : capKind[i] # "float" => edges[i][3] = 1
    /\ BFIdle /\ FWIdle /\ MFIdle /\ DSIdle /\ GBIdle /\ CBIdle /\ PLIdle
NextInvalid ==
    \/ NextBF
    \/ NextMF
SpecInvalid == InitInvalid /\ [][NextInvalid]_vars

(***************************************************************************)
(* Graph notions the claims are stated with                                *)
(***************************************************************************)
\* a >= b on distances, +infinity included
GEq(a, b) == a = Inf \/ (b # Inf /\ a >= b)

\* nodes reachable from s along edges of es
RECURSIVE ReachFrom(_, _)
ReachFrom(S, es) ==
    LET T == S \cup {es[i][2] : i \in {j \in DOMAIN es : es[j][1] \in S}}
    IN IF T = S THEN S ELSE ReachFrom(T, es)

\* walks: sequences of edge positions, each edge starting where the last ended
IsWalk(p, es) == \A i \in 1..(Len(p) - 1) : es[p[i]][2] = es[p[i + 1]][1]

RECURSIVE WalkWeight(_, _, _)
WalkWeight(p, es, i) == IF i > Len(p) THEN 0 ELSE es[p[i]][3] + WalkWeight(p, es, i + 1)

\* a cycle of negative total weight, all of whose nodes are reachable from s
\* (a negative closed walk contains a negative simple cycle, of at most |V| edges)
NegativeCycleReachable(ns, es, s) ==
    \E k \in 1..Len(ns) : \E p \in [1..k -> DOMAIN es] :
        /\ IsWalk(p, es)
        /\ es[p[k]][2] = es[p[1]][1]
        /\ es[p[1]][1] \in ReachFrom({s}, es)
        /\ WalkWeight(p, es, 1) < 0

NegativeCycleAnywhere(ns, es) ==
    \E s \in Range(ns) : NegativeCycleReachable(ns, es, s)

NonNegativeWeights(es) == \A i \in DOMAIN es : es[i][3] >= 0

\* the least weight among the parallel edges u -> v (Inf when there is none)
MinEdgeWeight(es, u, v) ==
    LET ws == {es[i][3] : i \in {j \in DOMAIN es : es[j][1] = u /\ es[j][2] = v}}
    IN IF ws = {} THEN Inf ELSE CHOOSE w \in ws : \A x \in ws : w <= x

\* total of the least edge weights along a node path
RECURSIVE PathWeight(_, _, _)
PathWeight(path, es, i) ==
    IF i >= Len(path) THEN 0
    ELSE FAdd(MinEdgeWeight(es, path[i], path[i + 1]), PathWeight(path, es, i + 1))

(***************************************************************************)
(* Claims                                                                  *)
(***************************************************************************)
\* C1: when BellmanFord.run returns (dist, prev), every edge (u, v, w) satisfies
\* dist[u] + w >= dist[v], unreachable nodes counting as +infinity.
C1_NoEdgeRelaxesAfterReturn ==
    bfPc = "returned" =>
        \A i \in DOMAIN edges :
            GEq(FAdd(dist[edges[i][1]], edges[i][3]), dist[edges[i][2]])

\* a run that broke out of the loop early and returned, with an edge of negative
\* weight leaving an unreachable node
C1_Witness ==
    /\ bfPc = "returned"
    /\ bfRound < BFRounds(nodes)
    /\ \E i \in DOMAIN edges : dist[edges[i][1]] = Inf /\ edges[i][3] < 0

\* C2: BellmanFord.run raises NegativeCycleError exactly when a cycle of negative
\* total weight is reachable from the origin, and returns normally otherwise.
C2_RaisesIffNegativeCycleReachable ==
    bfPc \in {"returned", "NegativeCycleError"} =>
        (bfPc = "NegativeCycleError" <=> NegativeCycleReachable(nodes, edges, source))

\* a run that raised on the cycle u -> v (3), v -> u (-5) from u
C2_Witness ==
    /\ bfPc = "NegativeCycleError"
    /\ edges = <<(<<source, 2, 3>>), (<<2, source, -5>>)>>

C4_RebuiltPathRealisesDistance ==
    fwPc = "done" =>
        \A src, dst \in Range(nodes) :
            FWDistance(nodes, fwDist, src, dst) # Inf =>
                LET path == FWRebuildPath(nodes, fwNext, src, dst) IN
                    /\ path # <<>>
                    /\ path # <<None>>
                    /\ path[1] = src
                    /\ path[Len(path)] = dst
                    /\ \A i \in 1..(Len(path) - 1) :
                          MinEdgeWeight(edges, path[i], path[i + 1]) # Inf
                    /\ PathWeight(path, edges, 1) = FWDistance(nodes, fwDist, src, dst)

\* a finished run with a rebuilt path through an intermediate node
C4_Witness ==
    /\ fwPc = "done"
    /\ \E src, dst \in Range(nodes) :
          /\ Len(FWRebuildPath(nodes, fwNext, src, dst)) = 3
          /\ FWDistance(nodes, fwDist, src, dst) < 0

\* sum of f over a finite set
RECURSIVE SumOver(_, _)
SumOver(S, f) ==
    IF S = {} THEN 0
    ELSE LET x == CHOOSE y \in S : TRUE IN f[x] + SumOver(S \ {x}, f)

\* the accumulated capacities of the network as constructed
OriginalCap == MFConstruct(nodes, edges).val

\* total original capacity of the ordered pairs leaving S
CutCapacity(S) ==
    LET crossing == {p \in Range(nodes) \X Range(nodes) : p[1] \in S /\ p[2] \notin S}
    IN SumOver(crossing, [p \in crossing |-> OriginalCap[p[1]][p[2]]])

\* C5: MaxFlow.run returns (flow, residual, S) with flow equal to the sum of the
\* original accumulated capacities of the pairs (u, v), u in S and v not in S.
C5_FlowEqualsCutCapacity ==
    mfPc = "returned" => mfFlow = CutCapacity(mfS)

\* a returned run that pushed flow and whose cut is crossed by several pairs
C5_Witness ==
    /\ mfPc = "returned"
    /\ mfFlow >= 2
    /\ mfSink \notin mfS
    /\ Cardinality(mfS) >= 2

\* C6: after construction and after each augmentation, every residual capacity
\* cap[u][v] is >= 0.
C6_ResidualNonNegative ==
    mfPc # "none" =>
        \A u, v \in Range(nodes) : mfCap.val[u][v] >= 0

\* an augmentation has pushed flow back along an edge used before
C6_Witness ==
    /\ mfPc = "loop"
    /\ mfFlow = 2
    /\ nodes = CrossNodes
    /\ mfCap.val[2][3] = 1
    /\ mfCap.val[3][2] = 0

\* the list es holds an edge u -> v or v -> u
JoinsPair(es, u, v) ==
    \E i \in DOMAIN es : <<es[i][1], es[i][2]>> \in {<<u, v>>, <<v, u>>}

\* the same builder called with no pair blocked
BuiltUnblocked ==
    CASE built.builder = "sp" -> BuildSP(dataset, {})
      [] built.builder = "flow" -> BuildFlow(dataset, {}, TRUE)
      [] built.builder = "flow-directed" -> BuildFlow(dataset, {}, FALSE)
      [] built.builder = "gu" -> BuildGU(dataset, {})

\* C7 as stated: for every builder and every pair of the blocked set, in either
\* orientation, the built edge list holds neither u -> v nor v -> u.
C7_BlockedEitherOrientation ==
    built.builder # "none" =>
        \A p \in blocked : ~JoinsPair(built.edges, p[1], p[2])

\* C7, amended: a pair blocks its edges in every builder when the set holds it as
\* (min id, max id), the form the builders' docstrings give blocked_paths; held
\* the other way round it blocks them in the planner's builder only.  The edges
\* built are those built with nothing blocked, less the edges of blocked pairs.
C7_BlockedNormalisedPair ==
    built.builder # "none" =>
        LET gu == built.builder = "gu"
            Blocks(u, v) == IF gu THEN <<u, v>> \in blocked \/ <<v, u>> \in blocked
                            ELSE SortedPair(u, v) \in blocked
            Kept(e) == ~Blocks(e[1], e[2])
        IN /\ \A p \in blocked :
                (p[1] <= p[2] \/ gu) => ~JoinsPair(built.edges, p[1], p[2])
           /\ built.edges = SelectSeq(BuiltUnblocked.edges, Kept)

\* the shortest-path builder has dropped the link that star 2 declares to star 1,
\* blocked as (1, 2), and kept another link
C7_Witness ==
    /\ built.builder = "sp"
    /\ blocked = {<<1, 2>>}
    /\ Declared(dataset, 1)
    /\ \E i \in DOMAIN dataset :
          dataset[i].id = 2 /\ \E j \in DOMAIN dataset[i].links : dataset[i].links[j].starId = 1
    /\ built.edges # <<>>

\* C8: no step of plan_max_route changes a field of the carrier the caller passed
\* in (energia, salud, pasto_kg, the three ages, vida_restante).
C8_CallerCarrierUntouched == [][heap'[RealRef] = heap[RealRef]]_vars

\* the planner has returned after moving its clone and buffing it at a hypergiant
C8_Witness ==
    /\ plPc = "done"
    /\ heap[CloneRef].vida_restante < heap[RealRef].vida_restante
    /\ heap[CloneRef].energia > heap[RealRef].energia
    /\ heap[CloneRef].pasto_kg > heap[RealRef].pasto_kg

\* the jumps a run has made: one "buff" row is written per jump
JumpsMade == Cardinality({i \in DOMAIN recap_rows : recap_rows[i].paso = "buff"})

\* C9 as stated: called with a carrier of remaining lifespan zero, the planner
\* returns an itinerary of exactly one segment whose path is the start star
\* alone, and a carrier snapshot equal to the starting values.
C9_ZeroLifespanSingleSegment ==
    (plPc = "done" /\ heap[RealRef].vida_restante = 0) =>
        /\ Len(plan.per_galaxy) = 1
        /\ plan.per_galaxy[1].path = <<segments[1].entry_star>>
        /\ plan.sim_burro = SimBurro(heap[RealRef])

\* C10 as stated: on return the open segment is in the itinerary exactly once,
\* and the segments number the jumps made plus one.
C10_OpenSegmentAppendedOnce ==
    plPc = "done" =>
        /\ Cardinality({i \in DOMAIN itinerary : itinerary[i] = segment}) = 1
        /\ Len(plan.per_galaxy) = JumpsMade + 1

\* the stars the run has landed on, start included, in order: the paths of all segments
Landings(segs) == Flatten([i \in DOMAIN segs |-> segs[i].path])

\* no entry of the list occurs twice
NoRepeat(q) == \A i \in DOMAIN q : \A j \in DOMAIN q : q[i] = q[j] => i = j

\* C11: in a planning run visited_stars and visited_galaxies only grow, every
\* star moved or jumped to was not yet in visited_stars, and every jump enters a
\* galaxy that was not yet in visited_galaxies.
C11_VisitedOnlyGrowsNoRevisit ==
    [][plPc = "loop" =>
          /\ visited_stars \subseteq visited_stars'
          /\ visited_galaxies \subseteq visited_galaxies'
          /\ \A i \in (Len(Landings(segments)) + 1)..Len(Landings(segments')) :
                Landings(segments')[i] \notin visited_stars
          /\ NoRepeat(Landings(segments'))
          /\ Len(segments') > Len(segments) =>
                /\ current_galaxy' \notin visited_galaxies
                /\ current_galaxy' \in visited_galaxies'
          /\ Range(Landings(segments')) = visited_stars']_vars

\* a run has moved to a hypergiant, jumped from it, and returned with all three
\* stars visited
C11_Witness ==
    /\ plPc = "done"
    /\ JumpsMade = 1
    /\ Len(segments[1].path) = 2
    /\ Cardinality(visited_stars) = 3
    /\ Cardinality(visited_galaxies) = 2

\* the carrier is dead: no lifespan left, or at its death age, or of health Muerto
IsDead(b) == b.vida_restante <= 0 \/ b.edad_actual >= b.edad_muerte \/ b.salud = "Muerto"

\* the step is a call of one of the named methods
Calls(names) == ops' = ops + 1 /\ call'.op \in names

\* C12: once the carrier is dead, no call of viajar, comer_en_estrella,
\* investigar, aplicar_evento_salud or hipergigante_boost, whatever its
\* arguments, changes a field, and the carrier is dead ever after.
C12_DeadIsAbsorbing ==
    [][IsDead(heap[RealRef]) =>
          /\ IsDead(heap'[RealRef])
          /\ Calls({"viajar", "comer_en_estrella", "investigar", "aplicar_evento_salud",
                    "hipergigante_boost"}) => heap'[RealRef] = heap[RealRef]]_vars

\* a carrier that died travelling, still short of energy and with food in
\* stock, has been asked to eat for a positive time
C12_Witness ==
    /\ call = [op |-> "comer_en_estrella", args |-> <<32, 1>>]
    /\ heap[RealRef].salud = "Muerto"
    /\ heap[RealRef].edad_actual > 0
    /\ heap[RealRef].energia < 50
    /\ heap[RealRef].pasto_kg > 0

\* C13: with energia >= 50 and a positive visit time, comer_en_estrella returns
\* 0 kg and changes no field, whatever the time per kg and the food in stock.
C13_NoFeedingAtHalfEnergy ==
    [][(Calls({"comer_en_estrella"}) /\ heap[RealRef].energia >= 50 /\ call'.args[1] > 0) =>
          /\ ret' = 0
          /\ heap'[RealRef] = heap[RealRef]]_vars

\* a live carrier at exactly 50 of energy, with food, was asked to eat
C13_Witness ==
    /\ call = [op |-> "comer_en_estrella", args |-> <<32, 1>>]
    /\ ~IsDead(heap[RealRef])
    /\ heap[RealRef].energia = 50
    /\ heap[RealRef].pasto_kg = 16
    /\ ret = 0

\* C14: on a carrier that is not dead, Burro.hipergigante_boost and
\* apply_hypergiant_effects both double pasto_kg, set energia to
\* min(100, energia + half of energia), and change no other field.
C14_BoostDoublesFoodAddsHalfEnergy ==
    [][(Calls({"hipergigante_boost", "apply_hypergiant_effects"}) /\ ~IsDead(heap[RealRef])) =>
          LET before == heap[RealRef]
              after == heap'[RealRef]
          IN /\ after.pasto_kg = 2 * before.pasto_kg
             /\ 2 * after.energia = Min(200, 3 * before.energia)
             /\ after = [before EXCEPT !.pasto_kg = after.pasto_kg,
                                       !.energia = after.energia]]_vars

\* a live carrier has been boosted up to the cap of 100, its food doubled twice
C14_Witness ==
    /\ call.op = "hipergigante_boost"
    /\ ~IsDead(heap[RealRef])
    /\ heap[RealRef].energia = 100
    /\ heap[RealRef].pasto_kg = 64
    /\ ops = 2

\* C15: FloydWarshall.run raises NegativeCycleError whenever the graph holds a
\* cycle of negative total weight, a negative self-loop included, and whenever it
\* returns normally every diagonal entry dist[i][i] is 0.
C15_NegativeCycleRaisesElseZeroDiagonal ==
    /\ (fwPc \in {"done", "NegativeCycleError"} /\ NegativeCycleAnywhere(nodes, edges)) =>
          fwPc = "NegativeCycleError"
    /\ fwPc = "done" => \A i \in 1..Len(nodes) : fwDist[i][i] = 0

\* run has raised on a negative cycle through two nodes, no self-loop in the graph
C15_Witness ==
    /\ fwPc = "NegativeCycleError"
    /\ edges = <<(<<1, 2, -5>>), (<<2, 1, 3>>)>>

\* C16: invalid input is an error at once and never a result.  BellmanFord.run
\* with an origin that is no node raises ValueError; MaxFlow.run with a source or
\* sink that is no node raises ValueError and leaves the residual capacities as
\* constructed; MaxFlow(nodes, edges) raises InvalidPathError when an edge's
\* capacity is negative, None or not a number, and no network results.
C16_InvalidInputRaises ==
    /\ (bfPc # "idle" /\ source \notin Range(nodes)) =>
          /\ bfPc = "ValueError"
          /\ \A n \in Range(nodes) : dist[n] = Inf /\ prev[n] = None
    /\ (mfPc \in {"loop", "returned", "ValueError"}
            /\ (mfSource \notin Range(nodes) \/ mfSink \notin Range(nodes))) =>
          /\ mfPc = "ValueError"
          /\ mfCap = MFConstruct(nodes, edges)
          /\ mfFlow = 0
          /\ mfS = {}
    /\ (mfPc # "none"
            /\ \E i \in DOMAIN edges : capKind[i] \in {"None", "str"} \/ edges[i][3] < 0) =>
          /\ mfPc = "InvalidPathError"
          /\ mfCap = <<>>

\* all three errors in one state: an unknown origin refused by BellmanFord.run,
\* and a network whose second edge has capacity None refused by the constructor
C16_Witness ==
    /\ bfPc = "ValueError"
    /\ mfPc = "InvalidPathError"
    /\ Len(edges) = 2
    /\ capKind = <<"float", "None">>

\* MaxFlow.run has refused a known source with an unknown sink on a network
\* with capacity to push
C16_WitnessRun ==
    /\ mfPc = "ValueError"
    /\ mfSource \in Range(nodes)
    /\ mfSink \notin Range(nodes)
    /\ edges # <<>>

\* the ordered pairs (u, v) of an edge list, in order
OrderedPairs(es) == [i \in DOMAIN es |-> <<es[i][1], es[i][2]>>]

\* the node ids a builder returned
BuiltNodes == IF built.builder = "gu" THEN built.nodes ELSE Range(built.nodes)

\* C17 as stated: the edge list a builder returns holds u -> v and v -> u for
\* every unblocked declared link between declared stars u and v, and holds no
\* ordered pair (u, v) twice, also when both stars declare the link or a star is
\* listed more than once.
C17_BidirectionalDeduplicated ==
    built.builder \in {"sp", "flow", "gu"} =>
        /\ \A i \in DOMAIN dataset : \A j \in DOMAIN dataset[i].links :
              LET u == dataset[i].id
                  v == dataset[i].links[j].starId
              IN (Declared(dataset, v) /\ <<u, v>> \notin blocked /\ <<v, u>> \notin blocked) =>
                    /\ \E k \in DOMAIN built.edges : OrderedPairs(built.edges)[k] = <<u, v>>
                    /\ \E k \in DOMAIN built.edges : OrderedPairs(built.edges)[k] = <<v, u>>
        /\ NoRepeat(OrderedPairs(built.edges))

\* C18 as stated: every builder skips a link whose target is not a declared
\* star: the build raises nothing, and every endpoint of every edge built is a
\* declared star and is in the node list returned.
C18_UndeclaredTargetSkipped ==
    built.builder # "none" =>
        /\ built.builder # "InvalidPathError"
        /\ \A k \in DOMAIN built.edges :
              /\ Declared(dataset, built.edges[k][1]) /\ Declared(dataset, built.edges[k][2])
              /\ built.edges[k][1] \in BuiltNodes /\ built.edges[k][2] \in BuiltNodes

\* the galaxies a jump may enter: not the current one, not visited, holding a hypergiant
JumpTargets ==
    {g \in GalaxyIds \cup {NoGalaxy} :
        /\ g # current_galaxy
        /\ g \notin visited_galaxies
        /\ \E i \in DOMAIN dataset : dataset[i].hyper /\ dataset[i].galaxy = g}

\* C19: every jump of the planner enters a galaxy other than the current one,
\* not visited before in the run and holding a hypergiant, and lands on a
\* hypergiant of that galaxy; where there is no such galaxy no jump is made.
C19_JumpsOnlyToNewHypergiantGalaxy ==
    [][(plPc = "loop" /\ Len(segments') > Len(segments)) =>
          /\ current_galaxy' \in JumpTargets
          /\ \E i \in DOMAIN dataset :
                /\ dataset[i].id = current'
                /\ dataset[i].hyper
                /\ dataset[i].galaxy = current_galaxy'
          /\ segments'[Len(segments')].entry_star = current'
          /\ segments'[Len(segments')].galaxy_id = current_galaxy']_vars

\* a jump made straight from the start star into a galaxy with two hypergiants
\* to land on
C19_Witness ==
    /\ plPc = "loop"
    /\ Len(segments) = 2
    /\ Len(segments[1].path) = 1
    /\ segments[1].jump_to = <<[galaxy_id |-> current_galaxy, landing_hg |-> current]>>
    /\ Cardinality(HgsByGalaxy(dataset, current_galaxy)) = 2

\* the sets S with source in S and sink outside: the source/sink cuts
CutsBetween(s, t) == {S \in SUBSET Range(nodes) : s \in S /\ t \notin S}

\* total capacity of the edges of the network that leave S
RECURSIVE CutWeight(_, _, _)
CutWeight(es, i, S) ==
    IF i > Len(es) THEN 0
    ELSE (IF es[i][1] \in S /\ es[i][2] \notin S THEN es[i][3] ELSE 0)
         + CutWeight(es, i + 1, S)

\* C20: for source # sink, the value MaxFlow.run returns is the maximum flow, the
\* least capacity over all source/sink cuts, and the set S it returns holds the
\* source and not the sink.
C20_FlowIsMinimumCut ==
    (mfPc = "returned" /\ mfSource # mfSink) =>
        LET capacities == {CutWeight(edges, 1, S) : S \in CutsBetween(mfSource, mfSink)}
        IN /\ mfSource \in mfS
           /\ mfSink \notin mfS
           /\ mfFlow \in capacities
           /\ \A c \in capacities : mfFlow <= c

\* the run has returned 2 on the network where the second unit of flow has to
\* undo the first path's use of 2 -> 3
C20_Witness ==
    /\ mfPc = "returned"
    /\ nodes = CrossNodes
    /\ mfSource = 1
    /\ mfSink = 6
    /\ mfFlow = 2

\* the step is a jump: a segment is closed and another opened
JumpStep == plPc = "loop" /\ Len(segments') > Len(segments)

\* the star a jump step leaves: the exit of the segment it closes
JumpedFrom == segments'[segment].exit_hypergiant

\* C21 as stated: a jump is made only from a hypergiant that has no eligible
\* neighbour, no unvisited neighbour of the current galaxy within reach of the
\* remaining lifespan; never while such a neighbour of the current star remains.
C21_JumpOnlyWithoutEligibleNeighbour ==
    [][JumpStep =>
          /\ is_hypergiant(StarOf(dataset, JumpedFrom))
          /\ choose_next_in_galaxy(dataset, built.edges, JumpedFrom, current_galaxy,
                                   visited_stars', heap'[burro]) = None]_vars

\* the step is an in-galaxy move: a "tramo" row is written
MoveStep ==
    /\ plPc = "loop"
    /\ Len(recap_rows') > Len(recap_rows)
    /\ recap_rows'[Len(recap_rows) + 1].paso = "tramo"

\* the star a move step goes to
MovedTo == recap_rows'[Len(recap_rows) + 1].estrella

\* the weights of the edges u -> v of the planner's graph
EdgeWeights(u, v) ==
    {built.edges[k][3] : k \in {j \in DOMAIN built.edges :
                                  built.edges[j][1] = u /\ built.edges[j][2] = v}}

\* the eligible neighbours of the current star: unvisited, of the current
\* galaxy, over an edge no longer than the remaining lifespan
EligibleNeighbours ==
    {v \in {dataset[i].id : i \in DOMAIN dataset} :
        /\ v \notin visited_stars
        /\ \E i \in DOMAIN dataset : dataset[i].id = v /\ dataset[i].galaxy = current_galaxy
        /\ \E w \in EdgeWeights(current, v) : w <= heap[burro].vida_restante}

\* the hypergiants among a set of stars
HypergiantsAmong(S) == {v \in S : \E i \in DOMAIN dataset : dataset[i].id = v /\ dataset[i].hyper}

\* v is reached from the current star by an edge no longer than any edge to a star of S
NearestOf(v, S) ==
    \E w \in EdgeWeights(current, v) :
        \A x \in S : \A wx \in EdgeWeights(current, x) : w <= wx

\* C22: every in-galaxy move goes to an eligible neighbour; to a hypergiant of
\* least edge weight among the eligible hypergiants when there is one, and
\* otherwise to an eligible neighbour of least edge weight.
C22_MoveToNearestEligiblePreferringHypergiant ==
    [][MoveStep =>
          /\ MovedTo \in EligibleNeighbours
          /\ IF HypergiantsAmong(EligibleNeighbours) # {}
             THEN /\ MovedTo \in HypergiantsAmong(EligibleNeighbours)
                  /\ NearestOf(MovedTo, HypergiantsAmong(EligibleNeighbours))
             ELSE NearestOf(MovedTo, EligibleNeighbours)]_vars

\* the first move went to a hypergiant two away although a plain star of the
\* same galaxy was nearer
C22_Witness ==
    /\ Len(recap_rows) >= 1
    /\ recap_rows[1].paso = "tramo"
    /\ recap_rows[1].es_hipergigante
    /\ recap_rows[1].delta_vida = -2
    /\ \E k \in DOMAIN built.edges :
          /\ built.edges[k][1] = segments[1].entry_star
          /\ built.edges[k][3] < 2
          /\ galaxy_of(dataset, built.edges[k][2]) = segments[1].galaxy_id
          /\ ~is_hypergiant(StarOf(dataset, built.edges[k][2]))

\* C23 as stated: once the clone's remaining lifespan is exhausted the run makes
\* no move, no jump and no hypergiant boost: no move starts and no boost is
\* applied with the lifespan at or below zero, from then on the resources stay
\* as they are and no segment is opened, and the snapshot returned is the one
\* of that moment.
C23_NothingAfterExhaustion ==
    [][plPc = "loop" =>
          /\ MoveStep => heap[burro].vida_restante > 0
          /\ JumpStep => heap'[burro].vida_restante > 0
          /\ heap[burro].vida_restante <= 0 =>
                /\ snapshot(heap'[burro]) = snapshot(heap[burro])
                /\ Len(segments') = Len(segments)
                /\ plPc' = "done" => plan'.sim_burro = SimBurro(heap[burro])]_vars

\* C24: in a planning run that starts with remaining lifespan >= 0 the clone's
\* remaining lifespan is never negative: a move is made only over an edge no
\* longer than the lifespan left before it, and the life_left_ly returned is not
\* negative.
C24_LifespanNeverNegative ==
    [][(plPc \in {"loop", "break"} /\ heap[RealRef].vida_restante >= 0) =>
          /\ heap[burro].vida_restante >= 0
          /\ heap'[burro].vida_restante >= 0
          /\ MoveStep =>
                \E w \in EdgeWeights(current, MovedTo) : w <= heap[burro].vida_restante
          /\ plPc' = "done" => plan'.life_left_ly >= 0]_vars

\* a run that spent its whole lifespan of 3 on moves has returned 0
C24_Witness ==
    /\ plPc = "done"
    /\ heap[RealRef].vida_restante = 3
    /\ plan.life_left_ly = 0
    /\ Len(plan.recap) = 2

\* the weight of the edge a move step goes over, 0 for a step that is no move
StepWeight ==
    IF MoveStep THEN CHOOSE w \in EdgeWeights(current, MovedTo) : TRUE ELSE 0

\* the summed edge weights along a path of the planner's graph
RECURSIVE SegmentWeight(_)
SegmentWeight(path) ==
    IF Len(path) < 2 THEN 0
    ELSE (CHOOSE w \in EdgeWeights(path[1], path[2]) : TRUE) + SegmentWeight(Tail(path))

\* the summed edge weights of all in-galaxy moves of the run
RECURSIVE TotalMoved(_)
TotalMoved(segs) ==
    IF segs = <<>> THEN 0
    ELSE SegmentWeight(segs[1].path) + TotalMoved(Tail(segs))

\* C25 as stated: every step of a run takes from the clone's remaining lifespan,
\* and adds to its age, exactly the weight of the edge moved over; a jump
\* changes neither and sets energy and food by the boost, a step without a jump
\* leaves energy and food alone; over the whole run lifespan and age have
\* changed by the summed weights of the moves.
C25_LifespanSpentIsDistanceMoved ==
    [][plPc = "loop" =>
          /\ heap'[burro].vida_restante = heap[burro].vida_restante - StepWeight
          /\ heap'[burro].edad_actual = heap[burro].edad_actual + StepWeight
          /\ IF JumpStep
             THEN /\ 2 * heap'[burro].energia = Min(200, 3 * heap[burro].energia)
                  /\ heap'[burro].pasto_kg = 2 * heap[burro].pasto_kg
             ELSE /\ heap'[burro].energia = heap[burro].energia
                  /\ heap'[burro].pasto_kg = heap[burro].pasto_kg
          /\ heap[RealRef].vida_restante - heap'[burro].vida_restante = TotalMoved(segments')
          /\ heap'[burro].edad_actual - heap[RealRef].edad_actual = TotalMoved(segments')]_vars

\* number of nodes + number of galaxies + 1
IterationBound ==
    Cardinality({dataset[i].id : i \in DOMAIN dataset})
    + Cardinality({dataset[i].galaxy : i \in DOMAIN dataset}) + 1

\* C26: plan_max_route terminates whatever the dataset, the start star and the
\* random choices; every loop iteration visits a new star, enters a new galaxy
\* or stops, so the iterations number at most nodes + galaxies + 1, and with
\* max_hops above that count the loop is left by a break, not by the ceiling.
C26_TerminatesWithinNodesPlusGalaxies ==
    /\ [][(plPc = "loop" /\ plPc' = "loop") =>
             \/ (visited_stars \subseteq visited_stars' /\ visited_stars' # visited_stars)
             \/ (visited_galaxies \subseteq visited_galaxies'
                 /\ visited_galaxies' # visited_galaxies)]_vars
    /\ [](plPc \in {"loop", "break", "done"} => hops <= IterationBound)
    /\ []((plPc = "done" /\ max_hops > IterationBound) => hops < max_hops)
    /\ (plPc = "loop" ~> plPc = "done")

\* a run with the default ceiling has returned after using all but two of the
\* iterations the bound allows: two moves, one of them with a jump, and the stop
C26_Witness ==
    /\ plPc = "done"
    /\ max_hops = DefaultMaxHops
    /\ hops = 3
    /\ JumpsMade = 1
    /\ IterationBound = 6

\* the node ids rebuild_path is asked about: those of the graph and one that is none
PathEnds == Range(nodes) \cup {Len(nodes) + 1}

\* C27 as stated: in every state of the engine, before run, after a normal run
\* and after a run that raised NegativeCycleError, rebuild_path(src, dst) comes
\* to an end, and it returns the empty sequence whenever src or dst is unknown
\* or there is no next hop.
C27_RebuildPathTerminates ==
    fwPc \in {"built", "done", "NegativeCycleError"} =>
        \A src \in PathEnds : \A dst \in PathEnds :
            /\ FWRebuildPath(nodes, fwNext, src, dst) # <<None>>
            /\ (\/ src \notin Range(nodes)
                \/ dst \notin Range(nodes)
                \/ fwNext[FWIndex(nodes, src)][FWIndex(nodes, dst)] = None) =>
                  FWRebuildPath(nodes, fwNext, src, dst) = <<>>

\* C28: MaxFlow.run comes to an end on every network with capacities >= 0: each
\* pass of its loop that changes the residual pushes a bottleneck above zero,
\* and the passes are bounded, the flow never exceeding the capacity that
\* leaves the source.
C28_MaxFlowTerminates ==
    /\ [][(mfPc = "loop" /\ mfCap' # mfCap) => mfFlow' > mfFlow]_vars
    /\ [](mfPc \in {"loop", "returned"} => mfFlow <= CutWeight(edges, 1, {mfSource}))
    /\ (mfPc = "loop" ~> mfPc = "returned")

\* the run is between its two augmentations on the six-node network
C28_Witness ==
    /\ mfPc = "loop"
    /\ nodes = CrossNodes
    /\ mfSource = 1
    /\ mfSink = 6
    /\ mfFlow = 1

\* C29: after BellmanFord.run(origin) has returned, rebuild_path(prev, target)
\* comes to an end for every target; for a target at finite distance the path
\* starts at the origin, ends at the target, follows edges of the graph and its
\* weights sum to dist[target]; for a target without predecessor that is not the
\* origin it is [target].
C29_RebuiltPathFromOrigin ==
    bfPc = "returned" =>
        \A target \in Range(nodes) :
            LET path == BFRebuildPath(prev, target) IN
                /\ path # <<None>>
                /\ dist[target] # Inf =>
                      /\ path # <<>>
                      /\ path[1] = source
                      /\ path[Len(path)] = target
                      /\ \A i \in 1..(Len(path) - 1) :
                            MinEdgeWeight(edges, path[i], path[i + 1]) # Inf
                      /\ PathWeight(path, edges, 1) = dist[target]
                /\ (prev[target] = None /\ target # source) => path = <<target>>

\* a returned run with a target two edges from the origin
C29_Witness ==
    /\ bfPc = "returned"
    /\ \E target \in Range(nodes) :
          /\ Len(BFRebuildPath(prev, target)) = 3
          /\ dist[target] = 4

\* a returned run with a target that has no predecessor and is not the origin
C29_WitnessUnreached ==
    /\ bfPc = "returned"
    /\ \E target \in Range(nodes) :
          /\ target # source
          /\ dist[target] = Inf
          /\ BFRebuildPath(prev, target) = <<target>>

\* C30 as stated: in every state a carrier built by from_json with death age >=
\* start age reaches through viajar, comer_en_estrella, investigar,
\* aplicar_evento_salud and hipergigante_boost, the remaining lifespan is the
\* death age less the current age.
C30_LifespanIsDeathAgeLessAge ==
    heap[RealRef].edad_muerte >= heap[RealRef].edad_inicial =>
        heap[RealRef].vida_restante = heap[RealRef].edad_muerte - heap[RealRef].edad_actual

\* C31: whatever calls of viajar, comer_en_estrella, investigar,
\* aplicar_evento_salud, hipergigante_boost and apply_hypergiant_effects are
\* made on a carrier built by from_json, its energy stays within 0..100 and its
\* food stock is never negative.
C31_EnergyAndFoodInRange ==
    /\ heap[RealRef].energia >= 0
    /\ heap[RealRef].energia <= 100
    /\ heap[RealRef].pasto_kg >= 0

\* a carrier without food left has been taken to the cap of 100 by one call and
\* has then been asked by an investigation for more energy than it had
C31_Witness ==
    /\ call.op = "investigar"
    /\ ret = 100
    /\ heap[RealRef].energia = 0
    /\ heap[RealRef].pasto_kg = 0
    /\ heap[RealRef].edad_actual = 0
    /\ ops = 2

\* C32: on a carrier that is not dead, viajar(d) takes max(0, d) from
\* vida_restante and adds it to edad_actual, never adds to vida_restante, leaves
\* the health Muerto exactly when afterwards vida_restante <= 0 or edad_actual >=
\* edad_muerte, and changes neither the energy nor the food.
C32_TravelSpendsLifespan ==
    [][(Calls({"viajar"}) /\ ~IsDead(heap[RealRef])) =>
          LET before == heap[RealRef]
              after == heap'[RealRef]
              d == Max(0, call'.args[1])
          IN /\ after.vida_restante = before.vida_restante - d
             /\ after.edad_actual = before.edad_actual + d
             /\ after.vida_restante <= before.vida_restante
             /\ after.salud = "Muerto" <=>
                   (after.vida_restante <= 0 \/ after.edad_actual >= after.edad_muerte)
             /\ after.salud # "Muerto" => after.salud = before.salud
             /\ after.energia = before.energia
             /\ after.pasto_kg = before.pasto_kg]_vars

\* a live carrier was asked to travel a negative distance and is as it was
C32_Witness ==
    /\ call = [op |-> "viajar", args |-> <<-1>>]
    /\ ~IsDead(heap[RealRef])
    /\ heap[RealRef].vida_restante = 3
    /\ heap[RealRef].edad_actual = 0

\* a carrier with one light-year left travelled two and died of it
C32_WitnessDied ==
    /\ call = [op |-> "viajar", args |-> <<2>>]
    /\ heap[RealRef].salud = "Muerto"
    /\ heap[RealRef].vida_restante = -1
    /\ heap[RealRef].edad_actual = 4
    /\ ops = 2

\* C33: on a carrier that is not dead, investigar with positive arguments
\* returns min(cost * visit / block, energia), takes exactly that from energia,
\* and leaves the health Muerto if and only if energia is 0 afterwards; the
\* lifespan, the age and the food are unchanged.
C33_InvestigateSpendsEnergy ==
    [][(Calls({"investigar"}) /\ ~IsDead(heap[RealRef])
          /\ call'.args[1] > 0 /\ call'.args[2] > 0 /\ call'.args[3] > 0) =>
          LET before == heap[RealRef]
              after == heap'[RealRef]
              asked == call'.args[2] * call'.args[1]
          IN /\ ret' * call'.args[3] = Min(asked, before.energia * call'.args[3])
             /\ after.energia = before.energia - ret'
             /\ after.salud = "Muerto" <=> after.energia = 0
             /\ after.salud # "Muerto" => after.salud = before.salud
             /\ after.vida_restante = before.vida_restante
             /\ after.edad_actual = before.edad_actual
             /\ after.pasto_kg = before.pasto_kg]_vars

\* a live carrier has paid 16 of its 48 for an investigation and lives on
C33_Witness ==
    /\ call = [op |-> "investigar", args |-> <<32, 8, 16>>]
    /\ ret = 16
    /\ heap[RealRef].energia = 32
    /\ ~IsDead(heap[RealRef])

\* a live carrier was asked for exactly the energy it had and died of it
C33_WitnessDied ==
    /\ call = [op |-> "investigar", args |-> <<32, 48, 32>>]
    /\ ret = 48
    /\ heap[RealRef].energia = 0
    /\ heap[RealRef].salud = "Muerto"
    /\ heap[RealRef].vida_restante > 0

\* the energy one kg of food gives at each health
YieldPerKg ==
    [Excelente |-> 5, Buena |-> 4, Regular |-> 3, Mala |-> 2, Moribundo |-> 1, Muerto |-> 0]

\* C34: on a carrier that is not dead and has energia < 50, comer_en_estrella
\* with positive arguments returns kg = min(pasto_kg, half the visit / time per
\* kg), takes exactly kg from pasto_kg and sets energia to min(100, energia + kg
\* times the yield of the health: 5, 4, 3, 2, 1 from Excelente to Moribundo);
\* the lifespan, the age and the health are unchanged.
C34_FeedTurnsFoodIntoEnergy ==
    [][(Calls({"comer_en_estrella"}) /\ ~IsDead(heap[RealRef]) /\ heap[RealRef].energia < 50
          /\ call'.args[1] > 0 /\ call'.args[2] > 0) =>
          LET before == heap[RealRef]
              after == heap'[RealRef]
              visit == call'.args[1]
              per_kg == call'.args[2]
          IN /\ ret' * 2 * per_kg = Min(before.pasto_kg * 2 * per_kg, visit)
             /\ after.pasto_kg = before.pasto_kg - ret'
             /\ after.energia = Min(100, before.energia + ret' * YieldPerKg[before.salud])
             /\ after.vida_restante = before.vida_restante
             /\ after.edad_actual = before.edad_actual
             /\ after.salud = before.salud]_vars

\* a carrier of health Regular and energy 48 had time for 4 of its 16 kg
C34_Witness ==
    /\ call = [op |-> "comer_en_estrella", args |-> <<32, 4>>]
    /\ ret = 4
    /\ heap[RealRef].salud = "Regular"
    /\ heap[RealRef].energia = 60
    /\ heap[RealRef].pasto_kg = 12

\* a carrier of health Moribundo and energy 0 had time for more than its 16 kg
C34_WitnessAllFood ==
    /\ call = [op |-> "comer_en_estrella", args |-> <<32, 1>>]
    /\ ret = 16
    /\ heap[RealRef].salud = "Moribundo"
    /\ heap[RealRef].energia = 16
    /\ heap[RealRef].pasto_kg = 0

\* C35: on a carrier that is not dead, aplicar_evento_salud(delta, new health)
\* adds delta to vida_restante; if the result is <= 0 the health becomes Muerto
\* whatever the new health, otherwise it becomes the new health when one is
\* given and stays when none is; the age, the energy and the food are unchanged.
C35_HealthEventAddsLifespan ==
    [][(Calls({"aplicar_evento_salud"}) /\ ~IsDead(heap[RealRef])) =>
          LET before == heap[RealRef]
              after == heap'[RealRef]
              delta == call'.args[1]
              new_health == call'.args[2]
          IN /\ after.vida_restante = before.vida_restante + delta
             /\ after.salud = IF after.vida_restante <= 0 THEN "Muerto"
                              ELSE IF new_health # "None" THEN new_health
                              ELSE before.salud
             /\ after.edad_actual = before.edad_actual
             /\ after.energia = before.energia
             /\ after.pasto_kg = before.pasto_kg]_vars

\* an event took the three light-years a live carrier had and named the health
\* Mala: the carrier is dead
C35_Witness ==
    /\ call = [op |-> "aplicar_evento_salud", args |-> <<-3, "Mala">>]
    /\ heap[RealRef].vida_restante = 0
    /\ heap[RealRef].salud = "Muerto"
    /\ heap[RealRef].edad_muerte = 3
    /\ ops = 1

\* an event gave two light-years and the health Mala to a live carrier
C35_WitnessNewHealth ==
    /\ call = [op |-> "aplicar_evento_salud", args |-> <<2, "Mala">>]
    /\ heap[RealRef].vida_restante = 5
    /\ heap[RealRef].salud = "Mala"

\* C36: once the engine's copy of the carrier is dead, apply_step with any
\* distance and any StarEffect leaves what state() reports (lifespan, energy,
\* food, health) as it was.
C36_DeadIsAbsorbingInEngine ==
    [][(engine # None /\ IsDead(heap[engine]) /\ call'.op = "apply_step" /\ ops' = ops + 1) =>
          state(heap'[engine']) = state(heap[engine])]_vars

\* C37: the engine works on its own copy.  After construction and any
\* apply_step calls every field of the carrier handed to the constructor is as
\* it was before construction, and each apply_step appends exactly one StepRecap
\* to the history, leaving the earlier ones in place.
C37_EngineLeavesOriginalAlone ==
    [][/\ heap'[RealRef] = heap[RealRef]
       /\ (call'.op = "apply_step" /\ ops' = ops + 1) =>
             /\ Len(history') = Len(history) + 1
             /\ SubSeq(history', 1, Len(history)) = history]_vars

\* three steps have been applied and recorded; the copy has aged and been
\* boosted, the original has not
C37_Witness ==
    /\ engine = CloneRef
    /\ Len(history) = 3
    /\ heap[CloneRef].edad_actual > heap[RealRef].edad_actual
    /\ heap[CloneRef].pasto_kg > heap[RealRef].pasto_kg
    /\ heap[RealRef] \in EngineInputs

\* total capacity of the edges u -> v of the network
RECURSIVE DirectedWeight(_, _, _, _)
DirectedWeight(es, i, u, v) ==
    IF i > Len(es) THEN 0
    ELSE (IF es[i][1] = u /\ es[i][2] = v THEN es[i][3] ELSE 0)
         + DirectedWeight(es, i + 1, u, v)

\* C38: at every step of MaxFlow.run, for every two nodes u and v,
\* cap[u][v] + cap[v][u] is the sum of the capacities of the edges u -> v and
\* v -> u of the network: an augmentation moves capacity between the two
\* directions of a pair and neither creates nor destroys any.
C38_PairCapacityConserved ==
    mfPc \in {"built", "loop", "returned"} =>
        \A u, v \in Range(nodes) :
            mfCap.val[u][v] + mfCap.val[v][u]
                = DirectedWeight(edges, 1, u, v) + DirectedWeight(edges, 1, v, u)

\* on the six-node network the second augmentation has pushed back the unit the
\* first had sent over 2 -> 3, and every pair of the two paths has its capacity
\* in the direction against the flow
C38_Witness ==
    /\ mfPc = "returned"
    /\ nodes = CrossNodes
    /\ mfSource = 1
    /\ mfSink = 6
    /\ mfFlow = 2
    /\ mfCap.val[2][3] = 1
    /\ mfCap.val[3][2] = 0
    /\ mfCap.val[2][1] = 1
    /\ mfCap.val[6][5] = 1

\* the dataset declares a link between a and b, in one direction or the other
LinkDeclared(ds, a, b) ==
    \E i \in DOMAIN ds : \E j \in DOMAIN ds[i].links :
        \/ ds[i].id = a /\ ds[i].links[j].starId = b
        \/ ds[i].id = b /\ ds[i].links[j].starId = a

\* the segment can be walked: its stars are of its galaxy, its consecutive stars
\* are joined by a declared link that is not blocked, and a jump leaves from a
\* hypergiant at the end of its path
Walkable(seg) ==
    /\ \A i \in DOMAIN seg.path : galaxy_of(dataset, seg.path[i]) = seg.galaxy_id
    /\ \A i \in 1..(Len(seg.path) - 1) :
          /\ LinkDeclared(dataset, seg.path[i], seg.path[i + 1])
          /\ <<seg.path[i], seg.path[i + 1]>> \notin blocked
          /\ <<seg.path[i + 1], seg.path[i]>> \notin blocked
    /\ seg.jump_to # <<>> =>
          /\ seg.path # <<>>
          /\ seg.path[Len(seg.path)] = seg.exit_hypergiant
          /\ is_hypergiant(StarOf(dataset, seg.exit_hypergiant))

\* C39: every segment of the itinerary plan_max_route returns is walkable: the
\* stars of its path are of the segment's galaxy, every two consecutive stars
\* are joined by a declared link whose pair is not blocked in either
\* orientation, and a segment that records a jump ends at its exit hypergiant.
C39_SegmentsWalkable ==
    plPc = "done" => \A k \in DOMAIN plan.per_galaxy : Walkable(plan.per_galaxy[k])

\* with the pair (2, 1) blocked, a returned itinerary whose first segment moves
\* over a link and jumps from the hypergiant it arrives at
C39_Witness ==
    /\ plPc = "done"
    /\ blocked = {<<2, 1>>}
    /\ Len(plan.per_galaxy) >= 2
    /\ Len(plan.per_galaxy[1].path) >= 2
    /\ plan.per_galaxy[1].jump_to # <<>>
    /\ LinkDeclared(dataset, 1, 2)

====
